---- MODULE Spec2Model ----
(***************************************************************************)
(* Verification model of the passport-intake repository.                   *)
(*                                                                         *)
(* Part I  : ocr_service -- OcrOrchestrator (submit / process_job /        *)
(*           manual_review / _notify_crm), JobRepository, SLAEngine,       *)
(*           QualityAnalyzer, RetryEngine and the result builder of        *)
(*           pipeline.py.  Specification: Spec.                            *)
(* Part II : bot/ocr_orchestrator.py -- ocr_pipeline_extract and           *)
(*           _run_fallback_with_timeout.  Specification: SpecPipe.         *)
(*                                                                         *)
(* Confidences and scores are percentages (0.85 is 85).  Coroutines switch *)
(* only at await points, so everything between two awaits is one action.   *)
(***************************************************************************)
EXTENDS FiniteSets, Integers, Naturals, Sequences, TLC

(***************************************************************************)
(* Bounds of the model.                                                    *)
(***************************************************************************)
MaxLocalAttempts == 2

\* job ids (uuid4 in the code), handed out in this order
JobOrder == <<"job1", "job2">>
JobIds == {JobOrder[k] : k \in 1..Len(JobOrder)}
\* the manual-review requests that can be in flight
ReviewIds == {"review1"}

(***************************************************************************)
(* Program constants.                                                      *)
(***************************************************************************)
MIN_CONFIDENCE == 85
OCR_FALLBACK_ENABLED == TRUE
auto_accept == 80
fallback_threshold == 55
total_timeout == 8
sla_breach_flag == TRUE

None == [none |-> TRUE]

(***************************************************************************)
(* Part I.  Inputs: the images a media_url can resolve to.  Each image is  *)
(* described by what the local (Paddle) OCR reads from its bytes and by    *)
(* the document an external provider of the fallback chain can read from   *)
(* it ("" when none can).  size is the length of the fetched bytes.        *)
(***************************************************************************)
ChecksOk == [passport |-> TRUE, birth_date |-> TRUE, expiry |-> TRUE, composite |-> TRUE]
ChecksBadPassport == [passport |-> FALSE, birth_date |-> TRUE, expiry |-> TRUE, composite |-> FALSE]

Images ==
  { [id |-> "good_small", size |-> 88, found |-> TRUE, avg_confidence |-> 90,
     checks |-> ChecksOk, cross_ok |-> TRUE, doc |-> "h1", fallback_doc |-> "h1"],
    [id |-> "cross_mismatch", size |-> 4000, found |-> TRUE, avg_confidence |-> 90,
     checks |-> ChecksOk, cross_ok |-> FALSE, doc |-> "h1", fallback_doc |-> "h1"],
    [id |-> "bad_checksum", size |-> 4000, found |-> TRUE, avg_confidence |-> 90,
     checks |-> ChecksBadPassport, cross_ok |-> TRUE, doc |-> "h2", fallback_doc |-> ""],
    [id |-> "no_mrz", size |-> 4000, found |-> FALSE, avg_confidence |-> 90,
     checks |-> ChecksOk, cross_ok |-> FALSE, doc |-> "", fallback_doc |-> ""],
    [id |-> "blank", size |-> 4000, found |-> FALSE, avg_confidence |-> 0,
     checks |-> ChecksOk, cross_ok |-> FALSE, doc |-> "", fallback_doc |-> ""] }

\* seconds one run_ocr_pipeline_v2 call can take
Durations == {1, 9}
\* seconds the storage fetch can take
FetchDurations == {1}

\* field patches a manual review can carry: the (field, value) items of the
\* corrections dict, in its iteration order
CorrectionSets ==
  { <<>>, << <<"surname", "IVANOV">>, <<"bogus", "x">> >>, << <<"passport_hash", "h2">> >>,
    << <<"surname", "IVANOV">>, <<"model_dump", "x">> >> }

\* names that are attributes of every MRZData object without being fields of it
\* (the methods and class attributes it inherits from BaseModel)
ModelAttributes == {"model_dump"}


TerminalStatuses ==
  {"auto_accepted", "fallback_used", "manual_review", "duplicate_detected", "failed"}

VARIABLES
  settings,      \* OCRSettings of the orchestrator
  jobs,          \* JobRepository.jobs : job_id -> JobRecord
  mrz_index,     \* JobRepository.mrz_index : passport_hash -> job_id
  task,          \* the process_job coroutine of each job: pc and locals
  reviews,       \* the manual_review coroutines
  crm_calls      \* per job (correlation id), how often each connector operation was invoked

VARIABLES
  config,        \* the OCR_SLA_* values of config.py seen by ocr_pipeline_extract
  gray,          \* the decoded image: None or its blur and exposure scores
  monotonic,     \* time.monotonic(), in half milliseconds
  pipe,          \* ocr_pipeline_extract: pc and local variables
  worker,        \* the executor thread of _run_fallback_with_timeout
  returned       \* the value ocr_pipeline_extract returned

VARIABLES
  sla            \* an SLAEngine with one MRZ reading, decided cycle after cycle

VARIABLES
  registry,      \* NationalityRuleRegistry: _named_rules and _fallback_rule
  engine_settings, \* ChecklistEngineSettings
  sink,          \* InMemoryAuditSink.records: audit_id -> ChecklistAuditRecord
  logged,        \* the events AuditLogger.logger has written, in order
  call,          \* the operation that was called, with its arguments
  outcome        \* what that call returned or raised

VARIABLES
  enforce,       \* one enforce_crm_stage coroutine: its result argument, position, end
  crm            \* the CRM behind the connector: requests received, fields of the lead

VARIABLES
  fsm_state,     \* FSMContext: the RegistrationFSM state stored for the chat
  fsm_data,      \* FSMContext: the data stored for the chat
  step           \* the RegistrationFlow handler that ran last: its inputs, connector calls, end

VARIABLES
  connector,     \* a BitrixConnector: _max_retries and _idempotent_cache
  bitrix_calls,  \* the _call coroutines: arguments, position, attempt, requests sent, end
  posts          \* the number of requests the httpx client has sent

VARIABLES
  form_state,    \* FSMContext of the bot chat: the Form state
  session,       \* FSMContext of the bot chat: data["session"]
  sla_decisions  \* the OCR_SLA_DECISION lines the handler has logged, in order

VARIABLES
  SEEN_HASHES_LOCAL, \* bot/main.py: the passport hashes remembered by remember_hash
  leads,         \* the crm.lead.add requests Bitrix has accepted, in order
  confirms       \* the on_final_confirm coroutines, one per chat

orchVars == <<settings, jobs, mrz_index, task, reviews, crm_calls>>

pipeVars == <<config, gray, monotonic, pipe, worker, returned>>

checklistVars == <<registry, engine_settings, sink, logged, call, outcome>>

enforceVars == <<enforce, crm>>

flowVars == <<fsm_state, fsm_data, step>>

bitrixVars == <<connector, bitrix_calls, posts>>

sessionVars == <<form_state, session, sla_decisions>>

confirmVars == <<SEEN_HASHES_LOCAL, leads, confirms>>

botVars == <<bitrixVars, sessionVars, confirmVars>>

engineVars == <<sla, registry, engine_settings, sink, logged, call, outcome, enforce, crm,
               fsm_state, fsm_data, step,
               connector, bitrix_calls, posts, form_state, session, sla_decisions,
               SEEN_HASHES_LOCAL, leads, confirms>>

vars == <<settings, jobs, mrz_index, task, reviews, crm_calls,
          config, gray, monotonic, pipe, worker, returned,
          sla, registry, engine_settings, sink, logged, call, outcome, enforce, crm,
          fsm_state, fsm_data, step,
          connector, bitrix_calls, posts, form_state, session, sla_decisions,
          SEEN_HASHES_LOCAL, leads, confirms>>

(***************************************************************************)
(* pipeline.py                                                             *)
(***************************************************************************)
all_three_ok(checks) == checks.passport /\ checks.birth_date /\ checks.expiry

_empty_result ==
  [success |-> FALSE, manual_check |-> TRUE, confidence_score |-> 0,
   parsing_source |-> "paddle", surname |-> "", passport_hash |-> "",
   warnings |-> {"mrz_not_found"}, auto_accepted |-> FALSE]

_build_result_from_text(found, avg_confidence, source, checks, cross_ok, surname, hash) ==
  LET base == [_empty_result EXCEPT !.parsing_source = source,
                                    !.confidence_score = avg_confidence]
      warnings == (IF avg_confidence < MIN_CONFIDENCE THEN {"low_confidence"} ELSE {})
                  \cup (IF ~all_three_ok(checks) THEN {"checksum_failed"} ELSE {})
                  \cup (IF ~cross_ok THEN {"cross_validation_failed"} ELSE {})
      accepted == avg_confidence >= MIN_CONFIDENCE /\ all_three_ok(checks) /\ cross_ok
  IN IF ~found
       THEN [base EXCEPT !.warnings = {"mrz_not_found"}]
       ELSE [base EXCEPT !.success = TRUE, !.manual_check = ~accepted,
                         !.surname = surname, !.passport_hash = hash,
                         !.warnings = warnings, !.auto_accepted = accepted]

\* the result try_fallback_chain returns: only a provider result that is auto_accepted
try_fallback_chain(img) ==
  LET r == _build_result_from_text(img.fallback_doc # "", MIN_CONFIDENCE, "ocr_space",
                                   ChecksOk, TRUE, "ERIKSSON", img.fallback_doc)
  IN IF r.auto_accepted THEN {r} ELSE {}

\* the payloads one run_ocr_pipeline_v2 call on these bytes can return
run_ocr_pipeline_v2(img) ==
  LET paddle_result == _build_result_from_text(img.found, img.avg_confidence, "paddle",
                                               img.checks, img.cross_ok,
                                               IF img.found THEN "ERIKSSON" ELSE "", img.doc)
  IN IF OCR_FALLBACK_ENABLED /\ ~paddle_result.auto_accepted
       THEN {paddle_result} \cup try_fallback_chain(img)
       ELSE {paddle_result}

(***************************************************************************)
(* engines.py                                                              *)
(***************************************************************************)
Min(a, b) == IF a < b THEN a ELSE b
Max(a, b) == IF a > b THEN a ELSE b

analyze(size, confidence) ==
  LET exposure == IF size > 100 THEN 90 ELSE 40
  IN [blur_score |-> Min(100, (size * 100) \div 2000),
      exposure_score |-> exposure,
      lighting_ok |-> exposure >= 50,
      normalized_confidence |-> Max(0, Min(100, confidence))]

\* decide with the manual-review branches opened one cycle early
decide_from_first_cycle(mrz, cycle_count, cfg) ==
  IF mrz.confidence >= cfg.auto_accept /\ mrz.checksum_ok
    THEN [status |-> "auto_accepted", use_fallback |-> FALSE]
  ELSE IF cycle_count >= 1 /\ cfg.manual_after_second_cycle
    THEN [status |-> "manual_review", use_fallback |-> FALSE]
  ELSE [status |-> "processing", use_fallback |-> TRUE]

\* decide sending to manual review at the second cycle only
decide_at_second_cycle_only(mrz, cycle_count, cfg) ==
  IF mrz.confidence >= cfg.auto_accept /\ mrz.checksum_ok
    THEN [status |-> "auto_accepted", use_fallback |-> FALSE]
  ELSE IF cycle_count = 2 /\ cfg.manual_after_second_cycle
    THEN [status |-> "manual_review", use_fallback |-> FALSE]
  ELSE [status |-> "processing", use_fallback |-> TRUE]

decide(mrz, cycle_count, cfg) ==
  IF mrz.confidence >= cfg.auto_accept /\ mrz.checksum_ok
    THEN [status |-> "auto_accepted", use_fallback |-> FALSE]
  ELSE IF mrz.confidence >= cfg.fallback_threshold
    THEN IF cycle_count >= 2 /\ cfg.manual_after_second_cycle
           THEN [status |-> "manual_review", use_fallback |-> FALSE]
           ELSE [status |-> "processing", use_fallback |-> TRUE]
  ELSE IF cycle_count >= 2 /\ cfg.manual_after_second_cycle
    THEN [status |-> "manual_review", use_fallback |-> FALSE]
  ELSE [status |-> "processing", use_fallback |-> TRUE]

\* next_cycle counting every attempt twice
next_cycle_twice(cycle_count) == cycle_count + 2

next_cycle(cycle_count) == cycle_count + 1

(***************************************************************************)
(* repository.py                                                           *)
(***************************************************************************)
\* add_audit putting the new entry in front of the trail
add_audit_in_front(job, event) == [job EXCEPT !.audit_trail = <<event>> \o @]

add_audit(job, event) == [job EXCEPT !.audit_trail = Append(@, event)]

\* check_duplicate that finds nothing
check_duplicate_blind(passport_hash) == FALSE

check_duplicate(passport_hash) == passport_hash \in DOMAIN mrz_index

\* register_passport_hash that stores nothing
register_passport_hash_dropped(index, passport_hash, job_id) == index

register_passport_hash(index, passport_hash, job_id) ==
  [h \in DOMAIN index \cup {passport_hash} |->
     IF h = passport_hash THEN job_id ELSE index[h]]

(***************************************************************************)
(* adapters.py                                                             *)
(***************************************************************************)
\* sha256 of the fetched bytes: distinct bytes, distinct digests
fetch_content_hash(img) == [sha256 |-> img.id]

(***************************************************************************)
(* orchestrator.py                                                         *)
(***************************************************************************)
JobRecord(job_id) ==
  [job_id |-> job_id, status |-> "submitted", cycle_count |-> 0, result |-> None,
   audit_trail |-> <<>>, content_hash |-> None]

_mrz_from_pipeline(payload) ==
  [surname |-> payload.surname,
   passport_hash |-> payload.passport_hash,
   checksum_ok |-> "checksum_failed" \notin payload.warnings,
   confidence |-> payload.confidence_score]

NoCalls ==
  [create_or_update_resident |-> 0, attach_document_links |-> 0, send_webhook_result |-> 0]

IdleTask == [pc |-> "none", content |-> None, elapsed |-> 0, attempt |-> 0]

InitOrch ==
  /\ settings \in [local_attempts : 1..MaxLocalAttempts,
                   manual_after_second_cycle : BOOLEAN,
                   auto_accept : {auto_accept},
                   fallback_threshold : {fallback_threshold},
                   total_timeout : {total_timeout},
                   sla_breach_flag : {sla_breach_flag}]
  /\ jobs = <<>>
  /\ mrz_index = <<>>
  /\ task = [j \in JobIds |-> IdleTask]
  /\ reviews = [r \in ReviewIds |-> [pc |-> "idle", job |-> "None", corrections |-> <<>>]]
  /\ crm_calls = [j \in JobIds |-> NoCalls]

\* Part II at rest
PipeIdle ==
  /\ config = None /\ gray = None /\ monotonic = 0
  /\ pipe = None /\ worker = None /\ returned = None

\* the engines of Parts III and IV are not in use
ChecklistIdle ==
  /\ registry = None /\ engine_settings = None /\ sink = <<>> /\ logged = <<>>
  /\ call = None /\ outcome = None

\* no enforce_crm_stage in progress
EnforceIdle == enforce = None /\ crm = None

\* no registration started: the FSMContext of the chat holds no state and no data
FlowIdle == fsm_state = "None" /\ fsm_data = None /\ step = None

\* no BitrixConnector built and no _call in progress
BitrixIdle == connector = None /\ bitrix_calls = <<>> /\ posts = 0

\* the bot chat has no Form state and no session
SessionIdle == form_state = "None" /\ session = None /\ sla_decisions = <<>>

\* no final confirmation in progress, nothing remembered, no lead created
ConfirmIdle == SEEN_HASHES_LOCAL = {} /\ leads = <<>> /\ confirms = <<>>

BotIdle == BitrixIdle /\ SessionIdle /\ ConfirmIdle

EnginesIdle == sla = None /\ ChecklistIdle /\ EnforceIdle /\ FlowIdle /\ BotIdle

\* repo.add / repo.update: store the record under its job_id
update(repo, job) ==
  [k \in DOMAIN repo \cup {job.job_id} |-> IF k = job.job_id THEN job ELSE repo[k]]

\* lines 46-51: a new JobRecord, its first audit entry, and the processing task
submit ==
  /\ Cardinality(DOMAIN jobs) < Len(JobOrder)
  /\ LET job_id == JobOrder[Cardinality(DOMAIN jobs) + 1]
         job == add_audit(JobRecord(job_id), "submitted")
     IN /\ jobs' = update(jobs, job)
        /\ task' = [task EXCEPT ![job_id].pc = "start"]
  /\ UNCHANGED <<engineVars, pipeVars, settings, mrz_index, reviews, crm_calls>>

\* lines 68-75: up to the await on storage.fetch_content
process_job_start(j) ==
  /\ task[j].pc = "start"
  /\ j \in DOMAIN jobs
  /\ jobs' = update(jobs, add_audit([jobs[j] EXCEPT !.status = "processing"],
                                    "processing_started"))
  /\ task' = [task EXCEPT ![j].pc = "fetch", ![j].elapsed = 0]
  /\ UNCHANGED <<engineVars, pipeVars, settings, mrz_index, reviews, crm_calls>>

\* head of the for loop (lines 78-80) when entered with `attempt` iterations done,
\* and lines 122-128 when the loop is exhausted; gives <<job record, task record>>
loop_head(job, t) ==
  IF t.attempt < settings.local_attempts
    THEN <<[job EXCEPT !.cycle_count = next_cycle(@)],
           [t EXCEPT !.pc = "pipeline", !.attempt = @ + 1]>>
    ELSE LET failed == add_audit([job EXCEPT !.status = "failed"], "failed")
         IN <<IF settings.sla_breach_flag /\ t.elapsed > settings.total_timeout
                THEN add_audit(failed, "sla_breach") ELSE failed,
              [IdleTask EXCEPT !.pc = "done"]>>

\* line 75-76: the fetch returns bytes and their digest, then the loop is entered
fetch_returns(j) ==
  /\ task[j].pc = "fetch"
  /\ \E img \in Images, d \in FetchDurations :
       LET fetched == [jobs[j] EXCEPT !.content_hash = fetch_content_hash(img)]
           t == [task[j] EXCEPT !.content = img, !.elapsed = @ + d]
           nxt == loop_head(fetched, t)
       IN /\ jobs' = update(jobs, nxt[1])
          /\ task' = [task EXCEPT ![j] = nxt[2]]
  /\ UNCHANGED <<engineVars, pipeVars, settings, mrz_index, reviews, crm_calls>>

\* line 75: storage.fetch_content raises (transient network error); the task dies
fetch_raises(j) ==
  /\ task[j].pc = "fetch"
  /\ task' = [task EXCEPT ![j] = [IdleTask EXCEPT !.pc = "raised"]]
  /\ UNCHANGED <<engineVars, pipeVars, settings, jobs, mrz_index, reviews, crm_calls>>

\* line 148: _notify_crm invokes the first connector operation
notify_begin(calls, j) == [calls EXCEPT ![j].create_or_update_resident = @ + 1]

\* lines 80-120: run_ocr_pipeline_v2 returns `payload` after d seconds; the rest of
\* the iteration runs without suspension up to the next await
local_attempt(j) ==
  /\ task[j].pc = "pipeline"
  /\ \E payload \in run_ocr_pipeline_v2(task[j].content), d \in Durations :
       LET job == jobs[j]
           t == [task[j] EXCEPT !.elapsed = @ + d]
           mrz == _mrz_from_pipeline(payload)
           quality == analyze(t.content.size, payload.confidence_score)
           decision == decide(mrz, job.cycle_count, settings)
           audited == add_audit(job, "local_attempt")
           duplicate == mrz.passport_hash # "" /\ check_duplicate(mrz.passport_hash)
           result == [quality |-> quality, mrz |-> mrz, text |-> payload.success,
                      duplicate_detected |-> duplicate]
           with_result == [audited EXCEPT !.result = result]
       IN IF duplicate
            THEN /\ jobs' = update(jobs, add_audit([with_result EXCEPT
                                           !.status = "duplicate_detected"],
                                           "duplicate_detected"))
                 /\ mrz_index' = mrz_index
                 /\ crm_calls' = notify_begin(crm_calls, j)
                 /\ task' = [task EXCEPT ![j] = [IdleTask EXCEPT !.pc = "await_resident"]]
          ELSE IF payload.auto_accepted
            THEN /\ jobs' = update(jobs, [with_result EXCEPT !.status = "auto_accepted"])
                 /\ mrz_index' = IF mrz.passport_hash # ""
                                   THEN register_passport_hash(mrz_index,
                                                               mrz.passport_hash, j)
                                   ELSE mrz_index
                 /\ crm_calls' = notify_begin(crm_calls, j)
                 /\ task' = [task EXCEPT ![j] = [IdleTask EXCEPT !.pc = "await_resident"]]
          ELSE IF decision.status \in {"manual_review"}
            THEN /\ jobs' = update(jobs, [with_result EXCEPT !.status = "manual_review"])
                 /\ mrz_index' = mrz_index
                 /\ crm_calls' = notify_begin(crm_calls, j)
                 /\ task' = [task EXCEPT ![j] = [IdleTask EXCEPT !.pc = "await_resident"]]
          ELSE LET nxt == loop_head(with_result, t)
               IN /\ jobs' = update(jobs, nxt[1])
                  /\ task' = [task EXCEPT ![j] = nxt[2]]
                  /\ UNCHANGED <<mrz_index, crm_calls>>
  /\ UNCHANGED <<engineVars, pipeVars, settings, reviews>>

\* lines 148-160: the connector call awaited at `pc` returns and the next one is invoked;
\* gives <<next pc, calls of the job>>
notify_next(pc, calls) ==
  CASE pc = "await_resident" ->
         <<"await_links", [calls EXCEPT !.attach_document_links = @ + 1]>>
    [] pc = "await_links" ->
         <<"await_webhook", [calls EXCEPT !.send_webhook_result = @ + 1]>>
    [] pc = "await_webhook" -> <<"done", calls>>

NotifyPcs == {"await_resident", "await_links", "await_webhook"}

process_job_crm_returns(j) ==
  /\ task[j].pc \in NotifyPcs
  /\ task' = [task EXCEPT ![j].pc = notify_next(task[j].pc, crm_calls[j])[1]]
  /\ crm_calls' = [crm_calls EXCEPT ![j] = notify_next(task[j].pc, @)[2]]
  /\ UNCHANGED <<engineVars, pipeVars, settings, jobs, mrz_index, reviews>>

\* a connector call raises: the exception leaves process_job, nothing is retried
process_job_crm_raises(j) ==
  /\ task[j].pc \in NotifyPcs
  /\ task' = [task EXCEPT ![j] = [IdleTask EXCEPT !.pc = "raised"]]
  /\ UNCHANGED <<engineVars, pipeVars, settings, jobs, mrz_index, reviews, crm_calls>>

\* line 137: hasattr is true of the fields and of every other attribute of the object
hasattr(mrz, field) == field \in DOMAIN mrz \/ field \in ModelAttributes

\* line 138: setattr on a name that is not a field of the model raises ValueError
\* (MRZData has extra="ignore", models.py line 36)
setattr_raises(mrz, field) == field \notin DOMAIN mrz

\* lines 136-138: hasattr/setattr over the corrections, in order, on the stored
\* object itself; stops at the first setattr that raises
RECURSIVE apply_corrections(_, _)
apply_corrections(mrz, corrections) ==
  IF corrections = <<>> THEN [mrz |-> mrz, raised |-> FALSE]
  ELSE LET field == Head(corrections)[1]
           value == Head(corrections)[2]
       IN IF ~hasattr(mrz, field) THEN apply_corrections(mrz, Tail(corrections))
          ELSE IF setattr_raises(mrz, field) THEN [mrz |-> mrz, raised |-> TRUE]
          ELSE apply_corrections([mrz EXCEPT ![field] = value], Tail(corrections))

\* lines 130-142: manual_review up to its first await
manual_review(r, j, corrections) ==
  /\ reviews[r].pc = "idle"
  /\ j \in DOMAIN jobs
  /\ jobs[j].result # None
  /\ ~apply_corrections(jobs[j].result.mrz, corrections).raised
  /\ LET job == jobs[j]
         corrected == [job EXCEPT !.result.mrz = apply_corrections(@, corrections).mrz,
                                  !.status = "auto_accepted"]
     IN jobs' = update(jobs, add_audit(corrected, "manual_review_applied"))
  /\ crm_calls' = notify_begin(crm_calls, j)
  /\ reviews' = [reviews EXCEPT ![r] = [pc |-> "await_resident", job |-> j,
                                        corrections |-> corrections]]
  /\ UNCHANGED <<engineVars, pipeVars, settings, mrz_index, task>>

\* lines 136-138: a setattr raises; the fields set before it stay set on the stored
\* record (job.result.mrz is the repository's object), lines 139-142 are not reached
manual_review_raises(r, j, corrections) ==
  /\ reviews[r].pc = "idle"
  /\ j \in DOMAIN jobs
  /\ jobs[j].result # None
  /\ apply_corrections(jobs[j].result.mrz, corrections).raised
  /\ jobs' = [jobs EXCEPT ![j].result.mrz = apply_corrections(@, corrections).mrz]
  /\ reviews' = [reviews EXCEPT ![r] = [pc |-> "raised", job |-> j,
                                        corrections |-> corrections]]
  /\ UNCHANGED <<engineVars, pipeVars, settings, mrz_index, task, crm_calls>>

review_next(rv) ==
  IF rv.pc = "await_webhook" THEN [pc |-> "done", job |-> "None", corrections |-> <<>>]
  ELSE [rv EXCEPT !.pc = notify_next(rv.pc, crm_calls[rv.job])[1]]

manual_review_crm_returns(r) ==
  /\ reviews[r].pc \in NotifyPcs
  /\ reviews' = [reviews EXCEPT ![r] = review_next(reviews[r])]
  /\ crm_calls' = [crm_calls EXCEPT ![reviews[r].job] = notify_next(reviews[r].pc, @)[2]]
  /\ UNCHANGED <<engineVars, pipeVars, settings, jobs, mrz_index, task>>

manual_review_crm_raises(r) ==
  /\ reviews[r].pc \in NotifyPcs
  /\ reviews' = [reviews EXCEPT ![r] = [pc |-> "raised", job |-> "None", corrections |-> <<>>]]
  /\ UNCHANGED <<engineVars, pipeVars, settings, jobs, mrz_index, task, crm_calls>>

Next ==
  \/ submit
  \/ \E j \in JobIds : process_job_start(j)
  \/ \E j \in JobIds : fetch_returns(j)
  \/ \E j \in JobIds : fetch_raises(j)
  \/ \E j \in JobIds : local_attempt(j)
  \/ \E j \in JobIds : process_job_crm_returns(j)
  \/ \E j \in JobIds : process_job_crm_raises(j)
  \/ \E r \in ReviewIds, j \in JobIds, c \in CorrectionSets : manual_review(r, j, c)
  \/ \E r \in ReviewIds, j \in JobIds, c \in CorrectionSets : manual_review_raises(r, j, c)
  \/ \E r \in ReviewIds : manual_review_crm_returns(r)
  \/ \E r \in ReviewIds : manual_review_crm_raises(r)

Init == InitOrch /\ PipeIdle /\ EnginesIdle

Spec == Init /\ [][Next]_vars

\* the steps of the process_job task of job j
ProcessTask(j) ==
  \/ process_job_start(j)
  \/ fetch_returns(j)
  \/ fetch_raises(j)
  \/ local_attempt(j)
  \/ process_job_crm_returns(j)
  \/ process_job_crm_raises(j)

\* the event loop resumes every task whose awaited call has completed
FairSpec == Init /\ [][Next]_vars /\ \A j \in JobIds : WF_vars(ProcessTask(j))

(***************************************************************************)
(* Part II.  bot/ocr_orchestrator.py: ocr_pipeline_extract.                *)
(* Time is counted in half milliseconds, so that int(elapsed * 1000)       *)
(* truncates as in the code.  Scores of ocr_quality.py are percentages.    *)
(* A text is the record of its stripped length and of the engine that      *)
(* produced it; the string "None" stands for Python's None where the other *)
(* values are strings.                                                     *)
(***************************************************************************)
MaxFallbackAttempts == 2

OCR_SLA_FALLBACK_TIMEOUT_SECONDS == 5
OCR_SLA_TOTAL_TIMEOUT_SECONDS == 8
OCR_SLA_FALLBACK_THRESHOLD_CONFIDENCE == 55
OCR_SLA_AUTO_ACCEPT_CONFIDENCE == 80
OCR_SLA_BREACH_THRESHOLD_RATIO == 90
OCR_SLA_FALLBACK_PROVIDER == "yandex_vision"

Seconds(n) == n * 2000
\* int((time.monotonic() - started_at) * 1000)
elapsed_ms(started_at, now) == (now - started_at) \div 2

NoText == [len |-> 0, by |-> "none"]
EmptyParsed == [present |-> FALSE, _mrz_checksum_ok |-> FALSE, mrz_confidence_score |-> 0]

\* what the decoded image can look like: undecodable, sharp and well lit, blurry, dark
Grays == { None, [blur |-> 120, exposure |-> 100], [blur |-> 50, exposure |-> 100],
           [blur |-> 120, exposure |-> 20] }

\* what the local engines can read in one attempt
LocalFindings == {"mrz_valid", "mrz_valid_short_text", "mrz_checksum_bad",
                  "easyocr_text", "nothing"}
\* how long one local attempt can take: 0.5 ms, 3 s, 8.0005 s, 9 s
LocalDurations == {1, 6000, 16001, 18000}
\* how long the Yandex Vision request can take: 1 s, 6 s, 10 s
VisionDurations == {2000, 12000, 20000}
VisionTexts == {NoText, [len |-> 200, by |-> "vision"]}

\* ocr_quality.py
is_blur_bad(score) == score < 80

is_image_low_quality(mrz_data, blur, exposure) ==
  \/ mrz_data.mrz_confidence_score < 55
  \/ ~mrz_data._mrz_checksum_ok
  \/ is_blur_bad(blur)
  \/ exposure < 50

build_ocr_quality_report(mrz_data, blur, exposure) ==
  [confidence |-> mrz_data.mrz_confidence_score,
   checksum_ok |-> mrz_data._mrz_checksum_ok,
   blur_score |-> blur,
   blur_bad |-> is_blur_bad(blur),
   exposure_score |-> exposure,
   needs_retry |-> is_image_low_quality(mrz_data, blur, exposure)]

\* bot/mrz_parser.py
compute_mrz_hash(mrz_lines) ==
  IF mrz_lines = "None" THEN None ELSE [sha256 |-> mrz_lines]

\* bot/ocr_orchestrator.py
_attach_quality(result, g) ==
  [result EXCEPT !.quality =
     IF g = None THEN build_ocr_quality_report(result.parsed, 0, 0)
     ELSE build_ocr_quality_report(result.parsed, g.blur, g.exposure)]

RawResult(text, source, confidence, parsed, mrz_lines) ==
  [text |-> text, source |-> source, confidence |-> confidence, parsed |-> parsed,
   mrz_lines |-> mrz_lines, quality |-> None]

_local_ocr_attempt(finding, g) ==
  LET checksum_ok == finding # "mrz_checksum_bad"
      parsed == [present |-> TRUE, _mrz_checksum_ok |-> checksum_ok,
                 mrz_confidence_score |-> IF checksum_ok THEN 90 ELSE 60]
      mrz_text == IF finding = "mrz_valid_short_text" THEN [len |-> 2, by |-> "mrz"]
                  ELSE [len |-> 89, by |-> "mrz"]
  IN CASE finding \in {"mrz_valid", "mrz_valid_short_text", "mrz_checksum_bad"} ->
            _attach_quality(RawResult(mrz_text, "mrz",
                                      IF checksum_ok THEN "high" ELSE "medium",
                                      parsed, "L898902C3"), g)
       [] finding = "easyocr_text" ->
            _attach_quality(RawResult([len |-> 50, by |-> "easyocr"], "easyocr",
                                      "medium", EmptyParsed, "None"), g)
       [] OTHER ->
            _attach_quality(RawResult(NoText, "tesseract", "low", EmptyParsed, "None"), g)

\* does _fallback_ocr_attempt return current_text without calling the provider
fallback_keeps_text(current_text) == current_text.len >= 60

_build_retry_reason_flags(quality, confidence, timeout_flag, fallback_used) ==
  [blur_bad |-> quality.blur_bad,
   exposure_bad |-> quality.exposure_score < 50,
   checksum_fail |-> ~quality.checksum_ok,
   low_confidence |-> confidence < OCR_SLA_FALLBACK_THRESHOLD_CONFIDENCE,
   timeout |-> timeout_flag,
   fallback_used |-> fallback_used]

sla_threshold_ms ==
  (OCR_SLA_TOTAL_TIMEOUT_SECONDS * 1000 * OCR_SLA_BREACH_THRESHOLD_RATIO) \div 100

_soft_fail_response(p, now, timeout_flag) ==
  LET quality == build_ocr_quality_report(EmptyParsed, 0, 0)
      ms == elapsed_ms(p.started_at, now)
  IN [text |-> NoText, source |-> "sla_soft_fail", confidence |-> "low",
      parsed |-> EmptyParsed, mrz_lines |-> "None", quality |-> quality,
      attempt_local_count |-> p.local_attempts,
      attempt_fallback_count |-> p.fallback_attempts,
      total_elapsed_ms |-> ms,
      decision_branch |-> "soft_fail",
      used_fallback_provider |-> p.used_fallback_provider,
      timeout_flag |-> timeout_flag,
      retry_reason_flags |-> _build_retry_reason_flags(quality, quality.confidence,
                                 timeout_flag, p.used_fallback_provider # "None"),
      sla_breach |-> ms >= sla_threshold_ms,
      passport_hash |-> None]

\* the budget check with the budget taken in the wrong unit
budget_exceeded_wrong_unit(p, now) ==
  (now - p.started_at) > Seconds(OCR_SLA_TOTAL_TIMEOUT_SECONDS * 1000)

\* has the total budget run out at time `now` (lines 177 and 211)
budget_exceeded(p, now) == (now - p.started_at) > Seconds(OCR_SLA_TOTAL_TIMEOUT_SECONDS)

InitExtract ==
  /\ config \in [OCR_SLA_MAX_LOCAL_ATTEMPTS : 1..MaxLocalAttempts,
                 OCR_SLA_FALLBACK_AFTER_FAILURES : 1..MaxLocalAttempts,
                 OCR_SLA_FALLBACK_ATTEMPTS : 0..MaxFallbackAttempts]
  /\ gray \in Grays
  /\ monotonic = 0
  /\ pipe = [pc |-> "local_loop", started_at |-> 0, local_attempts |-> 0,
             fallback_attempts |-> 0, local_failures |-> 0, local_failed |-> FALSE,
             last_result |-> None, used_fallback_provider |-> "None",
             timeout_flag |-> FALSE, current_text |-> NoText, fallback_started |-> 0]
  /\ worker = [state |-> "idle", text |-> NoText, finish_at |-> 0]
  /\ returned = None

\* Part I at rest
OrchIdle ==
  /\ settings = None /\ jobs = <<>> /\ mrz_index = <<>>
  /\ task = None /\ reviews = None /\ crm_calls = None

\* lines 175-186: head of a local iteration, with the budget check
local_loop ==
  /\ pipe.pc = "local_loop"
  /\ LET p == [pipe EXCEPT !.local_attempts = @ + 1]
     IN IF budget_exceeded(p, monotonic)
          THEN /\ pipe' = [p EXCEPT !.timeout_flag = TRUE, !.pc = "returned"]
               /\ returned' = _soft_fail_response(p, monotonic, TRUE)
          ELSE /\ pipe' = [p EXCEPT !.pc = "local_attempt"]
               /\ returned' = returned
  /\ UNCHANGED <<engineVars, orchVars, config, gray, monotonic, worker>>

\* lines 188-198: the local attempt returns after d; success breaks the loop
local_attempt_returns ==
  /\ pipe.pc = "local_attempt"
  /\ \E finding \in LocalFindings, d \in LocalDurations :
       LET result == _local_ocr_attempt(finding, gray)
           conf == result.quality.confidence
           local_failed == \/ ~result.parsed.present
                           \/ result.quality.needs_retry
                           \/ conf < OCR_SLA_FALLBACK_THRESHOLD_CONFIDENCE
           p == [pipe EXCEPT !.last_result = result,
                             !.local_failed = local_failed,
                             !.local_failures = IF local_failed THEN @ + 1 ELSE @]
       IN /\ monotonic' = monotonic + d
          /\ pipe' = [p EXCEPT !.pc =
                        IF local_failed /\ p.local_attempts < config.OCR_SLA_MAX_LOCAL_ATTEMPTS
                          THEN "local_loop" ELSE "after_local"]
  /\ UNCHANGED <<engineVars, orchVars, config, gray, worker, returned>>

should_use_fallback(p) ==
  \/ p.local_attempts >= config.OCR_SLA_MAX_LOCAL_ATTEMPTS
  \/ p.local_failures >= config.OCR_SLA_FALLBACK_AFTER_FAILURES

\* lines 200-207: enter the fallback phase or skip it
after_local ==
  /\ pipe.pc = "after_local"
  /\ pipe' = IF should_use_fallback(pipe) /\ config.OCR_SLA_FALLBACK_ATTEMPTS > 0
               THEN [pipe EXCEPT !.pc = "fallback_loop",
                                 !.current_text = pipe.last_result.text]
               ELSE [pipe EXCEPT !.pc = "finish"]
  /\ UNCHANGED <<engineVars, orchVars, config, gray, monotonic, worker, returned>>

\* lines 207-222 and 87-88: head of a fallback iteration with the budget check, then
\* the call is handed to the executor thread
fallback_loop ==
  /\ pipe.pc = "fallback_loop"
  /\ LET p == [pipe EXCEPT !.fallback_attempts = @ + 1,
                           !.used_fallback_provider = OCR_SLA_FALLBACK_PROVIDER]
     IN IF budget_exceeded(p, monotonic)
          THEN /\ pipe' = [p EXCEPT !.timeout_flag = TRUE, !.pc = "returned"]
               /\ returned' = _soft_fail_response(p, monotonic, TRUE)
               /\ worker' = worker
          ELSE /\ pipe' = [p EXCEPT !.pc = "future_result", !.fallback_started = monotonic]
               /\ returned' = returned
               /\ IF fallback_keeps_text(p.current_text)
                    THEN worker' = [state |-> "running", text |-> p.current_text,
                                    finish_at |-> monotonic]
                    ELSE \E text \in VisionTexts, d \in VisionDurations :
                           worker' = [state |-> "running", text |-> text,
                                      finish_at |-> monotonic + d]
  /\ UNCHANGED <<engineVars, orchVars, config, gray, monotonic>>

\* lines 223-233: the rest of a fallback iteration, given what
\* _run_fallback_with_timeout returned
after_fallback_call(p, fallback_text, fallback_timeout) ==
  LET q == [p EXCEPT !.timeout_flag = @ \/ fallback_timeout]
  IN IF fallback_text.len > 0
       THEN [q EXCEPT !.pc = "finish",
                      !.last_result = _attach_quality(
                          RawResult(fallback_text, "vision", "medium", EmptyParsed, "None"),
                          gray)]
     ELSE IF q.fallback_attempts < config.OCR_SLA_FALLBACK_ATTEMPTS
       THEN [q EXCEPT !.pc = "fallback_loop"]
     ELSE [q EXCEPT !.pc = "finish"]

fallback_deadline(p) == p.fallback_started + Seconds(OCR_SLA_FALLBACK_TIMEOUT_SECONDS)

\* lines 90-92: the call finishes within the timeout and its text is returned
future_result_returns ==
  /\ pipe.pc = "future_result"
  /\ worker.state = "running"
  /\ worker.finish_at <= fallback_deadline(pipe)
  /\ monotonic' = worker.finish_at
  /\ worker' = [worker EXCEPT !.state = "finished"]
  /\ pipe' = after_fallback_call(pipe, worker.text, FALSE)
  /\ UNCHANGED <<engineVars, orchVars, config, gray, returned>>

\* lines 93-95: future.result raises TimeoutError; the return statement then leaves
\* the with block, whose exit is executor.shutdown(wait=True)
future_result_times_out ==
  /\ pipe.pc = "future_result"
  /\ worker.state = "running"
  /\ worker.finish_at > fallback_deadline(pipe)
  /\ monotonic' = fallback_deadline(pipe)
  /\ pipe' = [pipe EXCEPT !.pc = "executor_shutdown"]
  /\ UNCHANGED <<engineVars, orchVars, config, gray, worker, returned>>

\* the abandoned call runs on in its thread and ends
worker_finishes ==
  /\ pipe.pc = "executor_shutdown"
  /\ worker.state = "running"
  /\ monotonic' = worker.finish_at
  /\ worker' = [worker EXCEPT !.state = "finished"]
  /\ UNCHANGED <<engineVars, orchVars, config, gray, pipe, returned>>

\* line 87: shutdown(wait=True) returns once the thread has ended; line 95 then
\* hands (current_text, True) back to ocr_pipeline_extract
executor_shutdown_returns ==
  /\ pipe.pc = "executor_shutdown"
  /\ worker.state = "finished"
  /\ pipe' = after_fallback_call(pipe, pipe.current_text, TRUE)
  /\ UNCHANGED <<engineVars, orchVars, config, gray, monotonic, worker, returned>>

\* the decision with the confidence thresholds tested before needs_retry
decision_branch_confidence_first(quality) ==
  IF quality.confidence >= OCR_SLA_AUTO_ACCEPT_CONFIDENCE THEN "auto_accept"
  ELSE IF quality.needs_retry THEN "soft_fail"
  ELSE IF quality.confidence >= OCR_SLA_FALLBACK_THRESHOLD_CONFIDENCE THEN "preview_required"
  ELSE "soft_fail"

\* lines 262-273
decision_branch(quality) ==
  IF quality.needs_retry THEN "soft_fail"
  ELSE IF quality.confidence >= OCR_SLA_AUTO_ACCEPT_CONFIDENCE THEN "auto_accept"
  ELSE IF quality.confidence >= OCR_SLA_FALLBACK_THRESHOLD_CONFIDENCE THEN "preview_required"
  ELSE "soft_fail"

\* lines 235-318
finish ==
  /\ pipe.pc = "finish"
  /\ LET ms == elapsed_ms(pipe.started_at, monotonic)
         timeout_flag == pipe.timeout_flag \/ ms > OCR_SLA_TOTAL_TIMEOUT_SECONDS * 1000
         last == pipe.last_result
     IN /\ pipe' = [pipe EXCEPT !.timeout_flag = timeout_flag, !.pc = "returned"]
        /\ returned' =
             IF timeout_flag \/ last = None
               THEN _soft_fail_response(pipe, monotonic, timeout_flag)
               ELSE [text |-> last.text, source |-> last.source,
                     confidence |-> last.confidence, parsed |-> last.parsed,
                     mrz_lines |-> last.mrz_lines, quality |-> last.quality,
                     attempt_local_count |-> pipe.local_attempts,
                     attempt_fallback_count |-> pipe.fallback_attempts,
                     total_elapsed_ms |-> ms,
                     decision_branch |-> decision_branch(last.quality),
                     used_fallback_provider |-> pipe.used_fallback_provider,
                     timeout_flag |-> timeout_flag,
                     retry_reason_flags |-> _build_retry_reason_flags(last.quality,
                         last.quality.confidence, timeout_flag,
                         pipe.used_fallback_provider # "None"),
                     sla_breach |-> ms >= sla_threshold_ms,
                     passport_hash |-> compute_mrz_hash(last.mrz_lines)]
  /\ UNCHANGED <<engineVars, orchVars, config, gray, monotonic, worker>>

NextPipe ==
  \/ local_loop
  \/ local_attempt_returns
  \/ after_local
  \/ fallback_loop
  \/ future_result_returns
  \/ future_result_times_out
  \/ worker_finishes
  \/ executor_shutdown_returns
  \/ finish

InitPipe == InitExtract /\ OrchIdle /\ EnginesIdle

SpecPipe == InitPipe /\ [][NextPipe]_vars

(***************************************************************************)
(* Part III.  ocr_service/engines.py: SLAEngine.decide applied to one MRZ   *)
(* reading (confidence, checksum_ok) at cycle 0, 1, 2, ...                 *)
(***************************************************************************)
\* inputs over which SLAEngine.decide is examined
DecideConfidences == {0, 54, 55, 79, 80, 100}
DecideCycles == 0..(MaxLocalAttempts + 1)
DecideSettings ==
  [auto_accept : {55, 80, 100}, fallback_threshold : {0, 55, 80},
   manual_after_second_cycle : BOOLEAN]

InitDecide ==
  /\ sla \in [mrz : [confidence : DecideConfidences, checksum_ok : BOOLEAN],
               cfg : DecideSettings, cycle_count : {0}, verdicts : {<<>>}]
  /\ OrchIdle /\ PipeIdle /\ ChecklistIdle /\ EnforceIdle /\ FlowIdle /\ BotIdle

\* decide(mrz=..., cycle_count=N), then the next cycle; verdicts[N + 1] is the
\* status decided at cycle N
decide_cycle ==
  /\ sla.cycle_count \in DecideCycles
  /\ sla' = [sla EXCEPT !.verdicts = Append(@, decide(sla.mrz, sla.cycle_count, sla.cfg).status),
                        !.cycle_count = next_cycle(@)]
  /\ UNCHANGED <<orchVars, pipeVars, flowVars, botVars, checklistVars, enforceVars>>

NextDecide == decide_cycle

SpecDecide == InitDecide /\ [][NextDecide]_vars

(***************************************************************************)
(* Part IV.  checklist_engine: rules.py, engine.py, multi_passport.py.     *)
(* One operation is called on an engine built with some registry and some  *)
(* settings.  Confidences are percentages; dates are days counted from     *)
(* today; an item code "doc::<type>" is the pair <<"doc", type>>; the      *)
(* string "None" stands for Python's None among strings.                   *)
(***************************************************************************)
\* most documents in one batch
MaxDocs == 2

\* rules.py lines 31-33: the default country sets
cis_countries == {"KZ", "RU", "BY", "KG", "UZ", "TJ", "AM", "AZ", "MD"}
visa_required_countries == {"IN", "PK", "NG", "EG"}
id_card_countries == {"DE", "FR", "ES", "IT", "PL"}

\* rules.py lines 64-71: the rules build_default_registry registers
DefaultRules ==
  [cis_passport |-> <<"national_passport", "residency_form">>,
   foreign_passport |-> <<"foreign_passport", "migration_card">>,
   visa_required |-> <<"foreign_passport", "visa", "entry_stamp">>,
   id_card |-> <<"national_id_card", "residency_form">>]
DefaultFallback == <<"foreign_passport">>

\* a function restricted to the names in S
Restrict(f, S) == [n \in S |-> f[n]]

\* registries a caller can build with register_rule and register_fallback: the
\* default one, one without the foreign_passport rule, one with no rule at all
Registries ==
  { [_named_rules |-> DefaultRules, _fallback_rule |-> DefaultFallback],
    [_named_rules |-> Restrict(DefaultRules, DOMAIN DefaultRules \ {"foreign_passport"}),
     _fallback_rule |-> DefaultFallback],
    [_named_rules |-> <<>>, _fallback_rule |-> <<"None">>] }

\* nationality strings a profile can carry, each with its strip().upper() form
NationalityForms ==
  ("RU" :> "RU") @@ (" ru " :> "RU") @@ ("DE" :> "DE") @@ ("IN" :> "IN") @@
  ("US" :> "US") @@ ("USA" :> "USA") @@ ("X" :> "X") @@ ("ATLANTIS" :> "ATLANTIS")
Nationalities == DOMAIN NationalityForms
\* the nationalities of the profiles handed to evaluate_for_fsm
ProfileNationalities == {"RU", "US", "ATLANTIS"}
\* len(nat) of the normalised forms
NationalityLen == [n \in {"RU", "DE", "IN", "US"} |-> 2] @@ ("USA" :> 3) @@ ("X" :> 1)
                    @@ ("ATLANTIS" :> 8)

Raised(error) == [raised |-> error]
Returned(value) == [raised |-> "None", value |-> value]

\* rules.py lines 57-60
_require_rule(reg, name) ==
  IF name \notin DOMAIN reg._named_rules
    THEN Raised("NationalityRuleMissing")
    ELSE Returned(reg._named_rules[name])

\* rules.py lines 43-55
resolve_required_docs(reg, nationality) ==
  LET nat == NationalityForms[nationality]
  IN IF nat \in cis_countries THEN _require_rule(reg, "cis_passport")
     ELSE IF nat \in id_card_countries THEN _require_rule(reg, "id_card")
     ELSE IF nat \in visa_required_countries THEN _require_rule(reg, "visa_required")
     ELSE IF NationalityLen[nat] \in {2, 3} THEN _require_rule(reg, "foreign_passport")
     ELSE IF reg._fallback_rule # <<"None">> THEN Returned(reg._fallback_rule)
     ELSE Raised("NationalityRuleMissing")

\* engine.py lines 27-29: ChecklistEngineSettings
confidence_threshold == 80
expiry_grace_days == 0
Today == 0

\* engine.py line 98: the role test that denies an override
override_denied_never(override_request) == FALSE

override_denied(override_request) == override_request.manager_role # "supervisor"

\* what OCR and manual checks can say of one document (expiry_date is <<>> when the
\* extracted fields carry none, else the one date): good, confidence just below
\* the threshold, the same but manually verified, checksum failure on a verified
\* document, expired yesterday, expiring today
DocQualities ==
  { [ocr_confidence |-> 80, verified_flag |-> FALSE, mrz_checksum_valid |-> TRUE, expiry_date |-> <<>>],
    [ocr_confidence |-> 79, verified_flag |-> FALSE, mrz_checksum_valid |-> TRUE, expiry_date |-> <<>>],
    [ocr_confidence |-> 79, verified_flag |-> TRUE, mrz_checksum_valid |-> TRUE, expiry_date |-> <<>>],
    [ocr_confidence |-> 95, verified_flag |-> TRUE, mrz_checksum_valid |-> FALSE, expiry_date |-> <<>>],
    [ocr_confidence |-> 95, verified_flag |-> FALSE, mrz_checksum_valid |-> TRUE, expiry_date |-> <<Today - 1>>],
    [ocr_confidence |-> 95, verified_flag |-> FALSE, mrz_checksum_valid |-> TRUE, expiry_date |-> <<Today>>] }

\* ResidentDocument (models.py lines 22-32) of one resident, as submitted for a checklist
ChecklistDocs ==
  { [resident_id |-> "res-1", doc_type |-> t, country_code |-> "RU", passport_hash |-> h,
     mrz_hash |-> "mh-1", ocr_confidence |-> q.ocr_confidence, verified_flag |-> q.verified_flag,
     mrz_checksum_valid |-> q.mrz_checksum_valid, expiry_date |-> q.expiry_date] :
      t \in {"national_passport", "residency_form"}, h \in {"ph-1", "ph-2"}, q \in DocQualities }

SeqUpTo(S, n) == UNION { [1..k -> S] : k \in 0..n }

\* ChecklistItem (models.py lines 35-41)
ChecklistItem(doc_type, required) ==
  [code |-> <<"doc", doc_type>>, required |-> required, satisfied |-> FALSE,
   satisfied_by_doc_type |-> "None", blocking |-> FALSE]

\* checklists handed to evaluate_checklist
Checklists ==
  { <<>>,
    <<ChecklistItem("national_passport", TRUE)>>,
    <<ChecklistItem("national_passport", TRUE), ChecklistItem("residency_form", TRUE)>>,
    <<ChecklistItem("national_passport", TRUE), ChecklistItem("residency_form", FALSE)>> }

\* OverrideRequest (models.py lines 72-74) or None
OverrideRequests ==
  { None,
    [manager_role |-> "supervisor", override_reason |-> "manual verification complete"],
    [manager_role |-> "manager", override_reason |-> "manual verification complete"] }

\* engine.py lines 39-48
build_checklist(reg, resident_profile) ==
  LET required_docs == resolve_required_docs(reg, resident_profile.nationality)
  IN IF required_docs.raised # "None" THEN required_docs
     ELSE Returned([k \in 1..Len(required_docs.value) |->
                      ChecklistItem(required_docs.value[k], TRUE)])

\* engine.py lines 186-192
_is_expired(doc, cfg) ==
  IF doc.expiry_date = <<>> THEN FALSE
  ELSE doc.expiry_date[1] + cfg.expiry_grace_days < Today

\* a manual verification that waives the checksum as well
_validate_document_verified_waives_all(doc, cfg) ==
  IF doc.verified_flag THEN (IF _is_expired(doc, cfg) THEN "doc_expired" ELSE "None")
  ELSE IF doc.ocr_confidence < cfg.confidence_threshold THEN "low_ocr_no_manual_verification"
  ELSE IF ~doc.mrz_checksum_valid THEN "mrz_checksum_fail"
  ELSE IF _is_expired(doc, cfg) THEN "doc_expired"
  ELSE "None"

\* engine.py lines 173-184
_validate_document(doc, cfg) ==
  IF doc.ocr_confidence < cfg.confidence_threshold /\ ~doc.verified_flag
    THEN "low_ocr_no_manual_verification"
  ELSE IF ~doc.mrz_checksum_valid THEN "mrz_checksum_fail"
  ELSE IF _is_expired(doc, cfg) THEN "doc_expired"
  ELSE "None"

\* engine.py lines 195-196
_trace(rule, input_data, decision) == [rule |-> rule, input |-> input_data, decision |-> decision]

\* engine.py line 58: a dict comprehension keeps the last document of each type
docs_by_type(resident_docs, doc_type) ==
  LET ks == {k \in 1..Len(resident_docs) : resident_docs[k].doc_type = doc_type}
  IN IF ks = {} THEN None ELSE resident_docs[CHOOSE k \in ks : \A i \in ks : i <= k]

\* duplicates looked for among the documents of one type only
duplicate_hashes_per_type(resident_docs) ==
  {resident_docs[i].passport_hash : i \in {k \in 1..Len(resident_docs) :
      \E j \in 1..Len(resident_docs) :
         /\ j # k /\ resident_docs[j].passport_hash = resident_docs[k].passport_hash
         /\ resident_docs[j].doc_type = resident_docs[k].doc_type}}

\* engine.py line 59
duplicate_hashes(resident_docs) ==
  {resident_docs[i].passport_hash : i \in {k \in 1..Len(resident_docs) :
      \E j \in 1..Len(resident_docs) :
         j # k /\ resident_docs[j].passport_hash = resident_docs[k].passport_hash}}

\* engine.py lines 69-92: one iteration of the loop over the checklist
evaluate_item(item, resident_docs, cfg) ==
  LET doc_type == item.code[2]
      doc == docs_by_type(resident_docs, doc_type)
  IN IF doc = None
       THEN [item |-> [item EXCEPT !.blocking = item.required],
             list |-> "missing",
             trace |-> _trace("required_doc_present", [doc_type |-> doc_type], "missing")]
     ELSE IF _validate_document(doc, cfg) # "None"
       THEN [item |-> [item EXCEPT !.blocking = TRUE, !.satisfied = FALSE],
             list |-> "missing",
             trace |-> _trace(_validate_document(doc, cfg),
                              [doc_type |-> doc_type, passport_hash |-> doc.passport_hash],
                              "blocking")]
     ELSE [item |-> [item EXCEPT !.satisfied = TRUE, !.satisfied_by_doc_type = doc.doc_type],
           list |-> "satisfied",
           trace |-> _trace("doc_satisfied", [doc_type |-> doc_type], "satisfied")]

\* the items of the evaluated checklist that went to one list, in order
ItemsOf(evaluated, Keep(_)) ==
  LET kept == SelectSeq(evaluated, Keep)
  IN [k \in 1..Len(kept) |-> kept[k].item]

\* engine.py lines 50-118
evaluate_checklist(resident_docs, checklist, override_request, cfg) ==
  IF duplicate_hashes(resident_docs) # {} THEN Raised("DuplicateDocumentError")
  ELSE
    LET evaluated == [k \in 1..Len(checklist) |-> evaluate_item(checklist[k], resident_docs, cfg)]
        blocking_items == ItemsOf(evaluated, LAMBDA e : e.list = "missing" /\ e.item.blocking)
        satisfied_items == ItemsOf(evaluated, LAMBDA e : e.list = "satisfied")
        missing_items == ItemsOf(evaluated, LAMBDA e : e.list = "missing")
        item_trace == [k \in 1..Len(evaluated) |-> evaluated[k].trace]
        considered == /\ blocking_items # <<>> /\ override_request # None
                      /\ cfg.allow_manual_override
        approved == considered /\ ~override_denied(override_request)
    IN Returned(
         [all_required_satisfied |-> (blocking_items = <<>>) \/ approved,
          blocking_items |-> blocking_items,
          satisfied_items |-> satisfied_items,
          missing_items |-> missing_items,
          manager_override_used |-> approved,
          decision_trace |->
            IF ~considered THEN item_trace
            ELSE IF ~approved
              THEN Append(item_trace,
                          _trace("override_denied_role",
                                 [manager_role |-> override_request.manager_role], "blocking"))
            ELSE Append(item_trace,
                        _trace("override_approved",
                               [manager_role |-> override_request.manager_role,
                                reason |-> override_request.override_reason], "allow"))])

\* audit.py line 37: the identifier is a digest of these three values of the record
audit_id_of(record) == <<record.correlation_id, record.resident_id, record.timestamp>>

\* audit.py lines 36-39: the record is stored under its identifier
sink_append(records, record) == (audit_id_of(record) :> record) @@ records

\* audit.py lines 78-85
_masked_decision(decision) ==
  IF "passport_hash" \in DOMAIN decision.input
    THEN [decision EXCEPT !.input = [decision.input EXCEPT !.passport_hash = "***"]]
    ELSE decision

\* audit.py lines 47-75: the stored record, the sink and the log after the call
create_record(records, log, correlation_id, resident_id, decisions, override_flag, timestamp) ==
  LET record == [correlation_id |-> correlation_id, resident_id |-> resident_id,
                 decisions |-> decisions, override_flag |-> override_flag,
                 timestamp |-> timestamp]
  IN [audit_id |-> audit_id_of(record),
      sink |-> sink_append(records, record),
      logged |-> Append(log, [event |-> "checklist_audit_record",
                              audit_id |-> audit_id_of(record),
                              correlation_id |-> correlation_id,
                              resident_id |-> resident_id,
                              override_flag |-> override_flag,
                              decisions |-> [k \in 1..Len(decisions) |->
                                               _masked_decision(decisions[k])],
                              timestamp |-> timestamp])]

\* engine.py lines 131-133
fsm_status(result, cfg) ==
  IF result.all_required_satisfied THEN "OK"
  ELSE IF cfg.allow_manual_override THEN "NEED_MANAGER"
  ELSE "BLOCKED"

\* engine.py lines 120-145; timestamp is what datetime.now reads in create_record
evaluate_for_fsm(reg, cfg, records, log, correlation_id, resident_profile, resident_docs, override_request, timestamp) ==
  LET checklist == build_checklist(reg, resident_profile)
      result == evaluate_checklist(resident_docs, checklist.value, override_request, cfg)
  IN IF checklist.raised # "None"
       THEN [returns |-> checklist, sink |-> records, logged |-> log]
     ELSE IF result.raised # "None"
       THEN [returns |-> result, sink |-> records, logged |-> log]
     ELSE LET r == result.value
              created == create_record(records, log, correlation_id,
                                       resident_profile.resident_id, r.decision_trace,
                                       r.manager_override_used, timestamp)
          IN [returns |-> Returned([status |-> fsm_status(r, cfg),
                                    blocking_codes |-> [k \in 1..Len(r.blocking_items) |->
                                                          r.blocking_items[k].code],
                                    checklist_snapshot |-> r,
                                    audit_id |-> created.audit_id]),
              sink |-> created.sink,
              logged |-> created.logged]

\* MultiPassportPolicy (multi_passport.py lines 9-12) as the callers build it
primary_doc_types == {"national_passport", "foreign_passport", "national_id_card"}
secondary_doc_types == {"visa", "migration_card", "residency_form", "entry_stamp"}

\* documents of a deal with two residents: any type and hash, and a country and MRZ
\* hash that agree or not with those of another document
BundleDocs ==
  { [resident_id |-> r, doc_type |-> t, country_code |-> cm[1], passport_hash |-> h,
     mrz_hash |-> cm[2], ocr_confidence |-> 95, verified_flag |-> FALSE,
     mrz_checksum_valid |-> TRUE, expiry_date |-> <<>>] :
      r \in {"res-1", "res-2"}, t \in {"national_passport", "residency_form", "selfie"},
      h \in {"ph-1", "ph-2"}, cm \in {<<"RU", "mh-1">>, <<"KZ", "mh-1">>, <<"RU", "mh-2">>} }

\* MultiResidentDeal (models.py lines 65-69): the resident ids of its profiles
Deals == { <<"res-1">>, <<"res-1", "res-2">>, <<"res-1", "res-3">> }

\* multi_passport.py lines 20-24
group_by_resident(documents) ==
  [r \in {documents[k].resident_id : k \in 1..Len(documents)} |->
     SelectSeq(documents, LAMBDA d : d.resident_id = r)]

\* the MRZ hashes of the primary documents are not compared
_validate_resident_documents_any_mrz_hash(documents) ==
  LET primary_docs == SelectSeq(documents, LAMBDA d : d.doc_type \in primary_doc_types)
      Field(f) == {primary_docs[k][f] : k \in 1..Len(primary_docs)}
  IN IF primary_docs = <<>> THEN Raised("ConflictingDocumentsError")
     ELSE IF Cardinality(Field("passport_hash")) > 1 THEN Raised("ConflictingDocumentsError")
     ELSE IF Cardinality(Field("country_code")) > 1 THEN Raised("ConflictingDocumentsError")
     ELSE IF \E k \in 1..Len(documents) :
               /\ documents[k].doc_type \notin primary_doc_types
               /\ documents[k].doc_type \notin secondary_doc_types
       THEN Raised("ConflictingDocumentsError")
     ELSE Returned("None")

\* multi_passport.py lines 39-60
_validate_resident_documents(documents) ==
  LET primary_docs == SelectSeq(documents, LAMBDA d : d.doc_type \in primary_doc_types)
      Field(f) == {primary_docs[k][f] : k \in 1..Len(primary_docs)}
  IN IF primary_docs = <<>> THEN Raised("ConflictingDocumentsError")
     ELSE IF Cardinality(Field("passport_hash")) > 1 THEN Raised("ConflictingDocumentsError")
     ELSE IF Cardinality(Field("country_code")) > 1 THEN Raised("ConflictingDocumentsError")
     ELSE IF Cardinality(Field("mrz_hash")) > 1 THEN Raised("ConflictingDocumentsError")
     ELSE IF \E k \in 1..Len(documents) :
               /\ documents[k].doc_type \notin primary_doc_types
               /\ documents[k].doc_type \notin secondary_doc_types
       THEN Raised("ConflictingDocumentsError")
     ELSE Returned("None")

\* multi_passport.py lines 26-30
validate_bundle(documents) ==
  LET grouped == group_by_resident(documents)
  IN IF \E r \in DOMAIN grouped : _validate_resident_documents(grouped[r]).raised # "None"
       THEN Raised("ConflictingDocumentsError")
       ELSE Returned(grouped)

\* multi_passport.py lines 32-37
evaluate_multi_resident_deal(deal, all_documents) ==
  LET grouped == validate_bundle(all_documents)
  IN IF grouped.raised # "None" THEN grouped
     ELSE IF \E k \in 1..Len(deal) : deal[k] \notin DOMAIN grouped.value
       THEN Raised("ConflictingDocumentsError")
     ELSE Returned(deal)

\* what datetime.now (audit.py line 62) can read, in the order of the clock; two
\* readings of the clock can be the same
Timestamps == <<1, 2>>

\* an engine that has evaluated nothing yet
EngineAsBuilt == [sink |-> <<>>, logged |-> <<>>]

\* the resident of an evaluation that came before the call
EarlierProfile == [resident_id |-> "res-1", nationality |-> "RU"]

\* the engine as built, or after one earlier evaluate_for_fsm of a resident who
\* had submitted nothing yet
InitChecklist ==
  /\ registry \in Registries
  /\ engine_settings \in [confidence_threshold : {confidence_threshold},
                           expiry_grace_days : {expiry_grace_days},
                           allow_manual_override : BOOLEAN]
  /\ \E earlier \in {EngineAsBuilt,
                      evaluate_for_fsm(registry, engine_settings, <<>>, <<>>, "corr-1",
                                       EarlierProfile, <<>>, None, Timestamps[1])} :
       sink = earlier.sink /\ logged = earlier.logged
  /\ call = None /\ outcome = None
  /\ sla = None
  /\ OrchIdle /\ PipeIdle /\ EnforceIdle /\ FlowIdle /\ BotIdle

\* a caller evaluates a checklist against a batch of documents
call_evaluate_checklist ==
  /\ call = None
  /\ \E docs \in SeqUpTo(ChecklistDocs, MaxDocs), checklist \in Checklists,
        override_request \in OverrideRequests :
       /\ call' = [op |-> "evaluate_checklist", resident_docs |-> docs,
                   checklist |-> checklist, override_request |-> override_request]
       /\ outcome' = evaluate_checklist(docs, checklist, override_request, engine_settings)
  /\ UNCHANGED <<orchVars, pipeVars, flowVars, botVars, enforceVars, sla, registry, engine_settings, sink, logged>>

\* the registration flow asks for the status of one resident
call_evaluate_for_fsm ==
  /\ call = None
  /\ \E docs \in SeqUpTo(ChecklistDocs, MaxDocs), nationality \in ProfileNationalities,
        override_request \in OverrideRequests, t \in 1..Len(Timestamps) :
       LET profile == [resident_id |-> "res-1", nationality |-> nationality]
           done == evaluate_for_fsm(registry, engine_settings, sink, logged, "corr-1",
                                    profile, docs, override_request, Timestamps[t])
       IN /\ call' = [op |-> "evaluate_for_fsm", resident_docs |-> docs,
                      resident_profile |-> profile, override_request |-> override_request]
          /\ outcome' = done.returns
          /\ sink' = done.sink
          /\ logged' = done.logged
  /\ UNCHANGED <<orchVars, pipeVars, flowVars, botVars, enforceVars, sla, registry, engine_settings>>

call_resolve_required_docs ==
  /\ call = None
  /\ \E nationality \in Nationalities :
       /\ call' = [op |-> "resolve_required_docs", nationality |-> nationality]
       /\ outcome' = resolve_required_docs(registry, nationality)
  /\ UNCHANGED <<orchVars, pipeVars, flowVars, botVars, enforceVars, sla, registry, engine_settings, sink, logged>>

call_validate_bundle ==
  /\ call = None
  /\ \E docs \in SeqUpTo(BundleDocs, MaxDocs) :
       /\ call' = [op |-> "validate_bundle", documents |-> docs]
       /\ outcome' = validate_bundle(docs)
  /\ UNCHANGED <<orchVars, pipeVars, flowVars, botVars, enforceVars, sla, registry, engine_settings, sink, logged>>

call_evaluate_multi_resident_deal ==
  /\ call = None
  /\ \E docs \in SeqUpTo(BundleDocs, MaxDocs), deal \in Deals :
       /\ call' = [op |-> "evaluate_multi_resident_deal", documents |-> docs, deal |-> deal]
       /\ outcome' = evaluate_multi_resident_deal(deal, docs)
  /\ UNCHANGED <<orchVars, pipeVars, flowVars, botVars, enforceVars, sla, registry, engine_settings, sink, logged>>

NextChecklist ==
  \/ call_evaluate_checklist
  \/ call_evaluate_for_fsm
  \/ call_resolve_required_docs
  \/ call_validate_bundle
  \/ call_evaluate_multi_resident_deal

SpecChecklist == InitChecklist /\ [][NextChecklist]_vars

(***************************************************************************)
(* Part V: ChecklistEngine.enforce_crm_stage with a ChecklistCRMBlocker    *)
(* (checklist_engine/engine.py, crm_blocker.py) in front of a              *)
(* BitrixConnector (connectors/bitrix_connector.py).  Every await of a     *)
(* connector call is a step.                                               *)
(***************************************************************************)
\* ChecklistCRMBlocker.blocked_stage_id and unblocked_stage_id, as configured
blocked_stage_id == "BLOCKED"
unblocked_stage_id == "READY"

\* the ChecklistResults handed to enforce_crm_stage: what evaluate_checklist returns
\* for the batches of at most one document
EnforcedResults ==
  { evaluate_checklist(docs, checklist, override_request,
                       [confidence_threshold |-> confidence_threshold,
                        expiry_grace_days |-> expiry_grace_days,
                        allow_manual_override |-> allowed]).value :
      docs \in SeqUpTo(ChecklistDocs, 1), checklist \in Checklists,
      override_request \in OverrideRequests, allowed \in BOOLEAN }

\* how a connector call can end (bitrix_connector.py lines 175-266 and the
\* bool(response.get("result", True)) of each method): the CRM applies the update
\* and the method returns True, the CRM answers result false and nothing is
\* applied, or _call raises
ConnectorAnswers == {"applied", "refused", "raised"}

\* the CRM after one request; only an applied request changes the lead
crm_request(state, method, fields, answer) ==
  [requests |-> Append(state.requests, [method |-> method, fields |-> fields]),
   lead |-> IF answer # "applied" THEN state.lead
            ELSE IF method = "crm.lead.update"
              THEN [f \in DOMAIN state.lead |->
                      IF f \in DOMAIN fields THEN fields[f] ELSE state.lead[f]]
            ELSE state.lead]

InitEnforce ==
  /\ enforce = None
  /\ crm = None
  /\ OrchIdle /\ PipeIdle /\ sla = None /\ ChecklistIdle /\ FlowIdle /\ BotIdle

\* engine.py lines 147-161, crm_blocker.py lines 100-122: the call starts and awaits
\* the snapshot write
enforce_crm_stage ==
  /\ enforce = None
  /\ \E result \in EnforcedResults :
       enforce' = [pc |-> "write_checklist_snapshot", result |-> result, ended |-> "None"]
  /\ crm' = [requests |-> <<>>,
             lead |-> [STAGE_ID |-> "NEW", UF_MANAGER_VERIFICATION_REQUIRED |-> "None"]]
  /\ UNCHANGED <<orchVars, pipeVars, flowVars, botVars, sla, checklistVars>>

\* crm_blocker.py lines 116-122 return or raise; engine.py line 162 picks the branch
write_checklist_snapshot_ends ==
  /\ enforce # None /\ enforce.pc = "write_checklist_snapshot"
  /\ \E answer \in ConnectorAnswers :
       /\ crm' = crm_request(crm, "crm.timeline.comment.add",
                             [COMMENT |-> "checklist snapshot"], answer)
       /\ enforce' = IF answer = "raised"
                       THEN [enforce EXCEPT !.pc = "done", !.ended = "ConnectorError"]
                     ELSE IF enforce.result.all_required_satisfied
                       THEN [enforce EXCEPT !.pc = "unblock_stage"]
                     ELSE [enforce EXCEPT !.pc = "block_stage"]
  /\ UNCHANGED <<orchVars, pipeVars, flowVars, botVars, sla, checklistVars>>

\* crm_blocker.py lines 71-77 and 86-92: the stage update of block_stage or unblock_stage
update_stage_ends ==
  /\ enforce # None /\ enforce.pc \in {"block_stage", "unblock_stage"}
  /\ \E answer \in ConnectorAnswers :
       /\ crm' = crm_request(crm, "crm.lead.update",
                             [STAGE_ID |-> IF enforce.pc = "block_stage"
                                             THEN blocked_stage_id
                                             ELSE unblocked_stage_id],
                             answer)
       /\ enforce' = IF answer = "raised"
                       THEN [enforce EXCEPT !.pc = "done", !.ended = "ConnectorError"]
                     ELSE IF enforce.pc = "block_stage"
                       THEN [enforce EXCEPT !.pc = "block_flag"]
                     ELSE [enforce EXCEPT !.pc = "unblock_flag"]
  /\ UNCHANGED <<orchVars, pipeVars, flowVars, botVars, sla, checklistVars>>

\* crm_blocker.py lines 78-83 and 93-98, then engine.py lines 164 and 171
manager_verification_required_flag_ends ==
  /\ enforce # None /\ enforce.pc \in {"block_flag", "unblock_flag"}
  /\ \E answer \in ConnectorAnswers :
       /\ crm' = crm_request(crm, "crm.lead.update",
                             [UF_MANAGER_VERIFICATION_REQUIRED |->
                                IF enforce.pc = "block_flag" THEN "Y" ELSE "N"],
                             answer)
       /\ enforce' = IF answer = "raised"
                       THEN [enforce EXCEPT !.pc = "done", !.ended = "ConnectorError"]
                     ELSE IF enforce.pc = "block_flag"
                       THEN [enforce EXCEPT !.pc = "done", !.ended = "ChecklistBlockingError"]
                     ELSE [enforce EXCEPT !.pc = "done", !.ended = "returned"]
  /\ UNCHANGED <<orchVars, pipeVars, flowVars, botVars, sla, checklistVars>>

NextEnforce ==
  \/ enforce_crm_stage
  \/ write_checklist_snapshot_ends
  \/ update_stage_ends
  \/ manager_verification_required_flag_ends

SpecEnforce == InitEnforce /\ [][NextEnforce]_vars

(***************************************************************************)
(* Part VI: the TD3 checks of parse_td3_mrz (bot/mrz_parser.py).  A line   *)
(* is the sequence of its characters; of the parsed data the model keeps   *)
(* the four checks and what is computed from them.                         *)
(***************************************************************************)
\* the characters of a normalised MRZ line, digits first, then letters, then filler
MrzAlphabet ==
  <<"0", "1", "2", "3", "4", "5", "6", "7", "8", "9", "A", "B", "C", "D", "E", "F",
  "G", "H", "I", "J", "K", "L", "M", "N", "O", "P", "Q", "R", "S", "T", "U", "V", "W",
  "X", "Y", "Z", "<">>

\* mrz_parser.py line 19
_CHECKSUM_WEIGHTS == <<7, 3, 1>>

\* mrz_parser.py line 20
NUM_MAP ==
  ("O" :> "0") @@ ("Q" :> "0") @@ ("I" :> "1") @@ ("L" :> "1") @@ ("B" :> "8")
    @@ ("S" :> "5") @@ ("G" :> "6")

\* the place of a character in MrzAlphabet
AlphabetIndex(ch) == CHOOSE k \in 1..Len(MrzAlphabet) : MrzAlphabet[k] = ch

\* str.isdigit on a character of the alphabet
isdigit(ch) == AlphabetIndex(ch) <= 10

\* int() of a digit
int(ch) == AlphabetIndex(ch) - 1

\* Python's s[a:b] on a line at least b long
Slice(s, a, b) == SubSeq(s, a + 1, b)

\* mrz_parser.py lines 213-220
_mrz_char_value(ch) ==
  IF isdigit(ch) THEN int(ch)
  ELSE IF ch # "<" THEN AlphabetIndex(ch) - 1
  ELSE 0

\* mrz_parser.py lines 223-227; idx counts from 0 in the source
RECURSIVE checksum_total(_, _)
checksum_total(value, n) ==
  IF n = 0 THEN 0
  ELSE checksum_total(value, n - 1)
         + _mrz_char_value(value[n]) * _CHECKSUM_WEIGHTS[((n - 1) % 3) + 1]

compute_mrz_checksum(value) == checksum_total(value, Len(value)) % 10

\* mrz_parser.py lines 230-232; the lines are upper case already
normalize_for_numeric(s) ==
  [k \in 1..Len(s) |-> IF s[k] \in DOMAIN NUM_MAP THEN NUM_MAP[s[k]] ELSE s[k]]

\* mrz_parser.py lines 235-238
validate_mrz_checksum(value, check_char) ==
  IF ~isdigit(check_char) THEN FALSE
  ELSE compute_mrz_checksum(value) = int(check_char)

\* mrz_parser.py lines 255-256: a short line is padded with filler
Pad44(line) == line \o [k \in 1..(IF Len(line) < 44 THEN 44 - Len(line) ELSE 0) |-> "<"]

\* mrz_parser.py lines 241-251
validate_td3_composite(line2) ==
  LET l2 == Pad44(line2)
      composite_value == normalize_for_numeric(Slice(l2, 0, 10))
                           \o normalize_for_numeric(Slice(l2, 13, 20))
                           \o normalize_for_numeric(Slice(l2, 21, 28))
                           \o Slice(l2, 28, 43)
  IN validate_mrz_checksum(composite_value, l2[44])

\* mrz_parser.py line 294, in hundredths
check_weight == 25

\* mrz_parser.py lines 254-298
parse_td3_mrz(line1, line2) ==
  LET l2 == Pad44(line2)
      checks == [passport_number |->
                   validate_mrz_checksum(normalize_for_numeric(Slice(l2, 0, 9)), l2[10]),
                 birth_date |->
                   validate_mrz_checksum(normalize_for_numeric(Slice(l2, 13, 19)), l2[20]),
                 expiry_date |->
                   validate_mrz_checksum(normalize_for_numeric(Slice(l2, 21, 27)), l2[28]),
                 composite |-> validate_td3_composite(l2)]
  IN [checks |-> checks,
      _mrz_checksum_ok |-> \A key \in DOMAIN checks : checks[key],
      mrz_confidence_score |-> check_weight * Cardinality({key \in DOMAIN checks : checks[key]})]

\* the first line of the samples (test_mrz_checksum.py line 22)
LINE1 ==
  <<"P", "<", "U", "T", "O", "E", "R", "I", "K", "S", "S", "O", "N", "<", "<", "A",
  "N", "N", "A", "<", "M", "A", "R", "I", "A", "<", "<", "<", "<", "<", "<", "<", "<",
  "<", "<", "<", "<", "<", "<", "<", "<", "<", "<", "<">>

\* second lines with correct check digits: the specimen of test_mrz_checksum.py
\* line 23, and a passport whose number has the letter B
LINE2_VALID ==
  <<"L", "8", "9", "8", "9", "0", "2", "C", "3", "6", "U", "T", "O", "7", "4", "0",
  "8", "1", "2", "2", "F", "1", "2", "0", "4", "1", "5", "9", "Z", "E", "1", "8", "4",
  "2", "2", "6", "B", "<", "<", "<", "<", "<", "1", "0">>

LINE2_LETTER_B ==
  <<"A", "B", "1", "2", "3", "4", "5", "6", "7", "1", "U", "T", "O", "8", "0", "0",
  "1", "0", "1", "4", "M", "3", "0", "0", "1", "0", "1", "9", "<", "<", "<", "<", "<",
  "<", "<", "<", "<", "<", "<", "<", "<", "<", "0", "0">>

Td3Samples == {LINE2_VALID, LINE2_LETTER_B}

\* where each checked field lies in the second line (mrz_parser.py lines 266-271)
CheckedFields ==
  [passport_number |-> 1..9, birth_date |-> 14..19, expiry_date |-> 22..27]

\* every position of a checked field, with the name of the field
FieldPositions ==
  UNION { {<<f, pos>> : pos \in CheckedFields[f]} : f \in DOMAIN CheckedFields }

\* the calls of parse_td3_mrz: a sample as it is, or with one character of one
\* checked field replaced by another character of the alphabet
Td3Calls ==
  { [op |-> "parse_td3_mrz", line1 |-> LINE1, line2 |-> sample, sample |-> sample,
     field |-> "None"] : sample \in Td3Samples }
  \cup
  { [op |-> "parse_td3_mrz", line1 |-> LINE1,
     line2 |-> [sample EXCEPT ![fp[2]] = MrzAlphabet[a]], sample |-> sample,
     field |-> fp[1]] :
       sample \in Td3Samples, fp \in FieldPositions, a \in 1..Len(MrzAlphabet) }

\* no checklist engine has been built
EngineUnbuilt ==
  registry = None /\ engine_settings = None /\ sink = <<>> /\ logged = <<>>

InitTd3 ==
  /\ call \in {c \in Td3Calls : c.field # "None" => c.line2 # c.sample}
  /\ outcome = None
  /\ EngineUnbuilt /\ EnforceIdle /\ FlowIdle /\ BotIdle /\ sla = None
  /\ OrchIdle /\ PipeIdle

\* the call returns the parsed data
parse_td3_mrz_returns ==
  /\ call # None /\ call.op = "parse_td3_mrz" /\ outcome = None
  /\ outcome' = parse_td3_mrz(call.line1, call.line2)
  /\ UNCHANGED <<orchVars, pipeVars, flowVars, botVars, enforceVars, sla, registry, engine_settings, sink,
                 logged, call>>

NextTd3 == parse_td3_mrz_returns

SpecTd3 == InitTd3 /\ [][NextTd3]_vars

(***************************************************************************)
(* Part VII: MRZParser.parse_td3 (ocr_service/mrz_parser.py) on lines of   *)
(* the MRZ alphabet, which _normalize_line leaves as they are.             *)
(***************************************************************************)
\* ocr_service/mrz_parser.py line 19
_WEIGHTS == <<7, 3, 1>>

\* ocr_service/mrz_parser.py lines 37-45
_char_value(char) ==
  IF isdigit(char) THEN int(char)
  ELSE IF char # "<" THEN AlphabetIndex(char) - 1
  ELSE 0

\* ocr_service/mrz_parser.py lines 47-52
RECURSIVE checksum_upto(_, _)
checksum_upto(value, n) ==
  IF n = 0 THEN 0
  ELSE checksum_upto(value, n - 1) + _char_value(value[n]) * _WEIGHTS[((n - 1) % 3) + 1]

checksum(value) == checksum_upto(value, Len(value)) % 10

\* ocr_service/mrz_parser.py lines 54-58
validate(value, check_char) ==
  IF ~isdigit(check_char) THEN FALSE
  ELSE checksum(value) = int(check_char)

\* ocr_service/mrz_parser.py lines 97-139; confidence is valid_count / 3, kept as
\* the pair of the two numbers
parse_td3(line1, line2) ==
  IF Len(line1) # 44 \/ Len(line2) # 44
    THEN [parsed |-> [format |-> "TD3", checksum_ok |-> FALSE, confidence |-> <<0, 3>>],
          checks |-> [passport |-> FALSE, birth_date |-> FALSE, expiry |-> FALSE]]
  ELSE
    LET l2 == line2
        checks == [passport |-> validate(Slice(l2, 0, 9), l2[10]),
                   birth_date |-> validate(Slice(l2, 13, 19), l2[20]),
                   expiry |-> validate(Slice(l2, 21, 27), l2[28]),
                   composite |-> validate(Slice(l2, 0, 10) \o Slice(l2, 13, 20)
                                            \o Slice(l2, 21, 43), l2[44])]
        valid_count == Cardinality({key \in {"passport", "birth_date", "expiry"} : checks[key]})
    IN [parsed |-> [format |-> "TD3", checksum_ok |-> (valid_count = 3),
                    confidence |-> <<valid_count, 3>>],
        checks |-> checks]

\* the calls of parse_td3: the specimen line, the specimen with any one character
\* replaced, and the specimen cut short by one character
ParseTd3Calls ==
  { [op |-> "parse_td3", line1 |-> LINE1, line2 |-> [LINE2_VALID EXCEPT ![pos] = MrzAlphabet[a]]] :
      pos \in 1..44, a \in 1..Len(MrzAlphabet) }
  \cup { [op |-> "parse_td3", line1 |-> LINE1, line2 |-> SubSeq(LINE2_VALID, 1, 43)] }

InitParseTd3 ==
  /\ call \in ParseTd3Calls
  /\ outcome = None
  /\ EngineUnbuilt /\ EnforceIdle /\ FlowIdle /\ BotIdle /\ sla = None
  /\ OrchIdle /\ PipeIdle

\* the call returns the MRZValidation
parse_td3_returns ==
  /\ call # None /\ call.op = "parse_td3" /\ outcome = None
  /\ outcome' = parse_td3(call.line1, call.line2)
  /\ UNCHANGED <<orchVars, pipeVars, flowVars, botVars, enforceVars, sla, registry, engine_settings, sink,
                 logged, call>>

NextParseTd3 == parse_td3_returns

SpecParseTd3 == InitParseTd3 /\ [][NextParseTd3]_vars

(***************************************************************************)
(* Part VIII: the date decoding of the OCR pipeline                        *)
(* (ocr_service/pipeline.py, _yyMMdd_to_iso).  A value is the sequence of  *)
(* its characters, None is <<"None">>, and the ISO date returned is the    *)
(* record of its three parts, the empty string <<>>.                       *)
(***************************************************************************)
\* the two characters of a number below 100
TwoDigits(n) == <<MrzAlphabet[(n \div 10) + 1], MrzAlphabet[(n % 10) + 1]>>

\* pipeline.py lines 58-65
_yyMMdd_to_iso(value) ==
  IF value = <<"None">> \/ value = <<>> \/ Len(value) # 6
       \/ \E k \in 1..Len(value) : ~isdigit(value[k])
    THEN <<>>
  ELSE LET yy == int(value[1]) * 10 + int(value[2])
           mm == Slice(value, 2, 4)
           dd == Slice(value, 4, 6)
           year == IF yy > 30 THEN 1900 + yy ELSE 2000 + yy
       IN <<[year |-> year, mm |-> mm, dd |-> dd]>>

\* the years in which the pipeline runs
CurrentYears == 2000..2099

\* the dates handed to _yyMMdd_to_iso: every two-digit year on the first of
\* February, and values that are no date
DateValues ==
  { TwoDigits(yy) \o <<"0", "2", "0", "1">> : yy \in 0..99 }
  \cup { <<"None">>, <<>>, <<"7", "4", "0", "8", "1">>, <<"7", "4", "O", "8", "1", "2">> }

InitDates ==
  /\ call \in [op : {"_yyMMdd_to_iso"}, value : DateValues, current_year : CurrentYears]
  /\ outcome = None
  /\ EngineUnbuilt /\ EnforceIdle /\ FlowIdle /\ BotIdle /\ sla = None
  /\ OrchIdle /\ PipeIdle

\* the call returns the decoded date
_yyMMdd_to_iso_returns ==
  /\ call # None /\ call.op = "_yyMMdd_to_iso" /\ outcome = None
  /\ outcome' = [iso |-> _yyMMdd_to_iso(call.value)]
  /\ UNCHANGED <<orchVars, pipeVars, flowVars, botVars, enforceVars, sla, registry, engine_settings, sink,
                 logged, call>>

NextDates == _yyMMdd_to_iso_returns

SpecDates == InitDates /\ [][NextDates]_vars

(***************************************************************************)
(* Part IX: RegistrationFlow (bot/handlers_registration.py) over the       *)
(* FSMContext of one chat.  A handler runs from its call to its return or  *)
(* raise in one step; what the OCR client and the CRM connector answer is  *)
(* an input of the step.  FSM data keeps what the handlers test: which     *)
(* keys are set, whether ocr_fields holds a passport_hash, and the flags.  *)
(***************************************************************************)
max_polls == 3

RegistrationFSM ==
  {"START", "COLLECT_CONTACT", "UPLOAD_DOC", "QUALITY_PRECHECK", "OCR_SUBMIT", "WAIT_RESULT",
   "PREVIEW_CONFIRM", "MANUAL_EDIT", "CONFIRMED", "MANAGER_VERIFICATION", "DONE"}

\* OCRJobResponse as get_job builds it from the payload: any status with any reason;
\* passport_hash tells whether result carries one (only a finished job has a result)
OCRJobResponse ==
  {job \in [status : {"pending", "processing", "failed", "timeout", "done"},
            reason : {"None", "duplicate", "manual_review"},
            passport_hash : BOOLEAN] :
     job.passport_hash => job.status = "done"}

\* get_job raises instead of returning a response (ocr_client.py line 53)
HTTPStatusError == [status |-> "raised", reason |-> "None", passport_hash |-> FALSE]

\* a call of the OCR client made by wait_result, with the status it answered
get_job(status) == [method |-> "get_job", status |-> status]

\* the get_job calls of the first n polls
Polled(polls, n) == [k \in 1..n |-> get_job(polls[k].status)]

\* a call of the CRM connector made by a handler
trigger_manager(reason) == [method |-> "trigger_manager", reason |-> reason]

find_duplicate == [method |-> "find_duplicate", reason |-> "None"]

create_registration == [method |-> "create_registration", reason |-> "None"]

\* what the connector does with the calls of one handler
CRMConnectorProtocol ==
  [find_duplicate : {"True", "False", "raised"},
   trigger_manager : {"returned", "raised"},
   create_registration : {"returned", "raised"}]

\* the same for a handler that calls nothing but trigger_manager
OnlyTriggerManager ==
  {a \in CRMConnectorProtocol : a.find_duplicate = "False" /\ a.create_registration = "returned"}

\* the data start() stores
StartedData ==
  [phone |-> FALSE, document_url |-> FALSE, ocr_job_id |-> FALSE,
   passport_hash |-> FALSE, flags |-> {}, crm |-> FALSE]

\* where a handler leaves the FSMContext, the connector calls it made, whether it was
\* told of a duplicate, and how it ended
Handled(state, data, detected, calls, ended) ==
  [state |-> state, data |-> data, detected |-> detected, calls |-> calls, ended |-> ended]

\* the polling loop of wait_result from poll i on, after i - 1 polls that reported
\* pending or processing; detected: a job polled so far had reason 'duplicate'
RECURSIVE wait_result_from(_, _, _, _, _, _)
wait_result_from(i, state, data, polls, detected, crm_answers) ==
  IF i > max_polls
    THEN IF crm_answers.trigger_manager = "raised"
           THEN Handled(state, data, detected,
                        Polled(polls, max_polls) \o <<trigger_manager("sla_breach")>>, "raised")
           ELSE Handled("MANAGER_VERIFICATION", [data EXCEPT !.flags = @ \cup {"timeout"}],
                        detected, Polled(polls, max_polls) \o <<trigger_manager("sla_breach")>>,
                        "returned")
    ELSE
      LET job == polls[i]
          told == detected \/ job.reason = "duplicate"
      IN  IF job = HTTPStatusError
            THEN Handled(state, data, detected, Polled(polls, i), "raised")
          ELSE IF job.status \in {"pending", "processing"}
            THEN wait_result_from(i + 1, state, data, polls, told, crm_answers)
          ELSE IF job.status = "failed"
            THEN Handled("UPLOAD_DOC", [data EXCEPT !.flags = @ \cup {"ocr_fail"}],
                         told, Polled(polls, i), "returned")
          ELSE IF job.status = "timeout"
            THEN IF crm_answers.trigger_manager = "raised"
                   THEN Handled(state, data, told,
                                Polled(polls, i) \o <<trigger_manager("sla_breach")>>, "raised")
                   ELSE Handled("MANAGER_VERIFICATION",
                                [data EXCEPT !.flags = @ \cup {"timeout"}], told,
                                Polled(polls, i) \o <<trigger_manager("sla_breach")>>, "returned")
          ELSE IF job.reason = "duplicate"
            THEN IF crm_answers.trigger_manager = "raised"
                   THEN Handled(state, data, told,
                                Polled(polls, i) \o <<trigger_manager("duplicate_detected")>>,
                                "raised")
                   ELSE Handled("MANAGER_VERIFICATION",
                                [data EXCEPT !.flags = @ \cup {"duplicate"}], told,
                                Polled(polls, i) \o <<trigger_manager("duplicate_detected")>>,
                                "returned")
          ELSE IF job.reason = "manual_review"
            THEN IF crm_answers.trigger_manager = "raised"
                   THEN Handled(state, data, told,
                                Polled(polls, i) \o <<trigger_manager("manual_review")>>, "raised")
                   ELSE Handled("MANUAL_EDIT", [data EXCEPT !.passport_hash = job.passport_hash],
                                told, Polled(polls, i) \o <<trigger_manager("manual_review")>>,
                                "returned")
          ELSE Handled("PREVIEW_CONFIRM", [data EXCEPT !.passport_hash = job.passport_hash],
                       told, Polled(polls, i), "returned")

\* wait_result that never stores the data it changed
wait_result_without_set_data(state, data, polls, crm_answers) ==
  [wait_result_from(1, state, data, polls, FALSE, crm_answers) EXCEPT !.data = data]

wait_result_handler(state, data, polls, crm_answers) ==
  wait_result_from(1, state, data, polls, FALSE, crm_answers)

preview_action_handler(state, data, action, crm_answers) ==
  IF action = "rescan" THEN Handled("UPLOAD_DOC", data, FALSE, <<>>, "returned")
  ELSE IF action = "edit" THEN Handled("MANUAL_EDIT", data, FALSE, <<>>, "returned")
  ELSE IF action # "confirm" THEN Handled(state, data, FALSE, <<>>, "returned")
  ELSE IF data.passport_hash /\ crm_answers.find_duplicate = "raised"
    THEN Handled("CONFIRMED", data, FALSE, <<find_duplicate>>, "raised")
  ELSE IF data.passport_hash /\ crm_answers.find_duplicate = "True"
    THEN IF crm_answers.trigger_manager = "raised"
           THEN Handled("CONFIRMED", data, TRUE,
                        <<find_duplicate, trigger_manager("duplicate_detected")>>, "raised")
           ELSE Handled("MANAGER_VERIFICATION", data, TRUE,
                        <<find_duplicate, trigger_manager("duplicate_detected")>>, "returned")
  ELSE
    LET asked == IF data.passport_hash THEN <<find_duplicate>> ELSE <<>>
    IN  IF crm_answers.create_registration = "raised"
          THEN Handled("CONFIRMED", data, FALSE, asked \o <<create_registration>>, "raised")
          ELSE Handled("DONE", [data EXCEPT !.crm = TRUE], FALSE,
                       asked \o <<create_registration>>, "returned")

\* the handler leaves its state and data in the FSMContext
Leaves(handler, handled) ==
  /\ fsm_state' = handled.state
  /\ fsm_data' = handled.data
  /\ step' = [handler |-> handler, detected |-> handled.detected,
              calls |-> handled.calls, ended |-> handled.ended]

InitFlow ==
  /\ FlowIdle
  /\ OrchIdle /\ PipeIdle /\ sla = None /\ ChecklistIdle /\ EnforceIdle /\ BotIdle

\* the /start command is served in every state
start ==
  /\ Leaves("start", Handled("COLLECT_CONTACT", StartedData, FALSE, <<>>, "returned"))
  /\ UNCHANGED <<orchVars, pipeVars, sla, checklistVars, enforceVars, botVars>>

collect_contact ==
  /\ fsm_state = "COLLECT_CONTACT"
  /\ Leaves("collect_contact",
            Handled("UPLOAD_DOC", [fsm_data EXCEPT !.phone = TRUE], FALSE, <<>>, "returned"))
  /\ UNCHANGED <<orchVars, pipeVars, sla, checklistVars, enforceVars, botVars>>

upload_doc ==
  /\ fsm_state = "UPLOAD_DOC"
  /\ Leaves("upload_doc",
            Handled("QUALITY_PRECHECK", [fsm_data EXCEPT !.document_url = TRUE],
                    FALSE, <<>>, "returned"))
  /\ UNCHANGED <<orchVars, pipeVars, sla, checklistVars, enforceVars, botVars>>

quality_precheck ==
  /\ fsm_state = "QUALITY_PRECHECK"
  /\ \E is_valid \in BOOLEAN :
       Leaves("quality_precheck",
              IF ~is_valid
                THEN Handled("UPLOAD_DOC", [fsm_data EXCEPT !.flags = @ \cup {"invalid_mrz"}],
                             FALSE, <<>>, "returned")
                ELSE Handled("OCR_SUBMIT", fsm_data, FALSE, <<>>, "returned"))
  /\ UNCHANGED <<orchVars, pipeVars, sla, checklistVars, enforceVars, botVars>>

ocr_submit ==
  /\ fsm_state = "OCR_SUBMIT"
  /\ \E submitted \in BOOLEAN :
       Leaves("ocr_submit",
              IF submitted
                THEN Handled("WAIT_RESULT", [fsm_data EXCEPT !.ocr_job_id = TRUE],
                             FALSE, <<>>, "returned")
                ELSE Handled(fsm_state, fsm_data, FALSE, <<>>, "raised"))
  /\ UNCHANGED <<orchVars, pipeVars, sla, checklistVars, enforceVars, botVars>>

wait_result ==
  /\ fsm_state = "WAIT_RESULT"
  /\ \E polls \in [1..max_polls -> OCRJobResponse \cup {HTTPStatusError}],
        crm_answers \in OnlyTriggerManager :
       Leaves("wait_result", wait_result_handler(fsm_state, fsm_data, polls, crm_answers))
  /\ UNCHANGED <<orchVars, pipeVars, sla, checklistVars, enforceVars, botVars>>

preview_action ==
  /\ fsm_state = "PREVIEW_CONFIRM"
  /\ \E action \in {"confirm", "edit", "rescan", "other"}, crm_answers \in CRMConnectorProtocol :
       Leaves("preview_action", preview_action_handler(fsm_state, fsm_data, action, crm_answers))
  /\ UNCHANGED <<orchVars, pipeVars, sla, checklistVars, enforceVars, botVars>>

\* patch may bring a passport_hash
manual_edit ==
  /\ fsm_state = "MANUAL_EDIT"
  /\ \E patch_hash \in BOOLEAN :
       Leaves("manual_edit",
              Handled("PREVIEW_CONFIRM",
                      [fsm_data EXCEPT !.passport_hash = @ \/ patch_hash],
                      FALSE, <<>>, "returned"))
  /\ UNCHANGED <<orchVars, pipeVars, sla, checklistVars, enforceVars, botVars>>

NextFlow ==
  \/ start
  \/ collect_contact
  \/ upload_doc
  \/ quality_precheck
  \/ ocr_submit
  \/ wait_result
  \/ preview_action
  \/ manual_edit

SpecFlow == InitFlow /\ [][NextFlow]_vars

(***************************************************************************)
(* Part X: BitrixConnector._call (connectors/bitrix_connector.py).  Several *)
(* _call coroutines share one connector; they interleave at the awaits of  *)
(* the HTTP request and of the sleep before a retry.  The payload of a     *)
(* successful response is identified by the coroutine whose request        *)
(* produced it, so that a cached response differs from a fresh one.        *)
(***************************************************************************)
\* max_retries is drawn from 0..MaxRetries
MaxRetries == 2

\* the _call coroutines, numbered in the order of their invocation
BitrixCallIds == {1, 2}

\* tenant ids: the first two are configured in _tenants, the last one is not
TenantIds == {"tenant-a", "tenant-b", "tenant-x"}

Operations == {"create_contact", "create_lead"}

\* idempotency_key: None (written "None"), the empty string, or a key
IdempotencyKeys == {"None", "", "idem-1"}

\* what the HTTP client can answer to one request
HttpAnswers == {"network_error", "429", "5xx", "4xx", "200_error", "200_not_json", "200"}

\* BitrixConnector(tenants, max_retries=...): the cache starts empty
BitrixConnector(max_retries) ==
  [_tenants |-> {"tenant-a", "tenant-b"}, _max_retries |-> max_retries,
   _idempotent_cache |-> <<>>]

\* a coroutine that has not been invoked yet
NotCalled ==
  [pc |-> "none", tenant_id |-> "None", operation |-> "None", idempotency_key |-> "None",
   attempt |-> 0, sent |-> 0, answer |-> "None", value |-> None]

\* the truth value Python gives an idempotency_key: None and "" are false
carries_key(idempotency_key) == idempotency_key # "None" /\ idempotency_key # ""

\* cache_key = (tenant_id, operation, idempotency_key or "")
cache_key(tenant_id, operation, idempotency_key) ==
  <<tenant_id, operation, IF carries_key(idempotency_key) THEN idempotency_key ELSE "">>

\* _get_credentials raises KeyError for a tenant that is not configured
_get_credentials(tenants, tenant_id) == tenant_id \in tenants

\* the answers after which the loop sleeps and sends the request again
retried(answer) == answer \in {"network_error", "429", "5xx"}

\* one attempt too many
last_attempt_late(attempt, max_retries) == attempt > max_retries

\* attempt >= self._max_retries: no attempt is left
last_attempt(attempt, max_retries) == attempt >= max_retries

\* what the failed last attempt, or an answer that is not retried, raises
raised_for(answer) ==
  CASE answer = "network_error" -> [exception |-> "HTTPError"]
    [] answer \in {"429", "5xx", "4xx"} -> [exception |-> "HTTPStatusError"]
    [] answer = "200_error" -> [exception |-> "RuntimeError"]
    [] answer = "200_not_json" -> [exception |-> "JSONDecodeError"]

\* the payload is dropped
cache_store_nothing(cache, key, payload) == cache

\* self._idempotent_cache[cache_key] = payload
cache_store(cache, key, payload) ==
  [k \in DOMAIN cache \cup {key} |-> IF k = key THEN payload ELSE cache[k]]

InitBitrix ==
  /\ connector \in {BitrixConnector(n) : n \in 0..MaxRetries}
  /\ bitrix_calls = [c \in BitrixCallIds |-> NotCalled]
  /\ posts = 0
  /\ OrchIdle /\ PipeIdle /\ sla = None /\ ChecklistIdle /\ EnforceIdle /\ FlowIdle
  /\ SessionIdle /\ ConfirmIdle

\* _call up to its first await: the credentials, the cache lookup, the first request
_call(c, tenant_id, operation, idempotency_key) ==
  /\ bitrix_calls[c].pc = "none"
  /\ \A b \in BitrixCallIds : b < c => bitrix_calls[b].pc # "none"
  /\ LET key == cache_key(tenant_id, operation, idempotency_key)
         args == [NotCalled EXCEPT !.tenant_id = tenant_id, !.operation = operation,
                                   !.idempotency_key = idempotency_key]
     IN IF ~_get_credentials(connector._tenants, tenant_id)
        THEN /\ bitrix_calls' = [bitrix_calls EXCEPT ![c] =
                  [args EXCEPT !.pc = "raised", !.value = [exception |-> "KeyError"]]]
             /\ posts' = posts
        ELSE IF carries_key(idempotency_key) /\ key \in DOMAIN connector._idempotent_cache
        THEN /\ bitrix_calls' = [bitrix_calls EXCEPT ![c] =
                  [args EXCEPT !.pc = "returned", !.value = connector._idempotent_cache[key]]]
             /\ posts' = posts
        ELSE /\ bitrix_calls' = [bitrix_calls EXCEPT ![c] =
                  [args EXCEPT !.pc = "post", !.sent = 1]]
             /\ posts' = posts + 1
  /\ UNCHANGED connector
  /\ UNCHANGED <<orchVars, pipeVars, flowVars, sla, checklistVars, enforceVars,
                 sessionVars, confirmVars>>

\* self._client.post answers: the rest of the loop body up to the next await or the end
post_returns(c, answer) ==
  /\ bitrix_calls[c].pc = "post"
  /\ LET this == bitrix_calls[c]
         seen == [this EXCEPT !.answer = answer]
         payload == [result |-> c]
         key == cache_key(this.tenant_id, this.operation, this.idempotency_key)
     IN IF retried(answer)
        THEN /\ bitrix_calls' = [bitrix_calls EXCEPT ![c] =
                  IF last_attempt(this.attempt, connector._max_retries)
                  THEN [seen EXCEPT !.pc = "raised", !.value = raised_for(answer)]
                  ELSE [seen EXCEPT !.pc = "sleep"]]
             /\ connector' = connector
        ELSE IF answer # "200"
        THEN /\ bitrix_calls' = [bitrix_calls EXCEPT ![c] =
                  [seen EXCEPT !.pc = "raised", !.value = raised_for(answer)]]
             /\ connector' = connector
        ELSE /\ bitrix_calls' = [bitrix_calls EXCEPT ![c] =
                  [seen EXCEPT !.pc = "returned", !.value = payload]]
             /\ connector' =
                  IF carries_key(this.idempotency_key)
                  THEN [connector EXCEPT !._idempotent_cache = cache_store(@, key, payload)]
                  ELSE connector
  /\ posts' = posts
  /\ UNCHANGED <<orchVars, pipeVars, flowVars, sla, checklistVars, enforceVars,
                 sessionVars, confirmVars>>

\* _sleep_before_retry returns: the next iteration sends the request again
_sleep_before_retry(c) ==
  /\ bitrix_calls[c].pc = "sleep"
  /\ bitrix_calls' = [bitrix_calls EXCEPT ![c] =
       [@ EXCEPT !.pc = "post", !.attempt = @ + 1, !.sent = @ + 1]]
  /\ posts' = posts + 1
  /\ UNCHANGED connector
  /\ UNCHANGED <<orchVars, pipeVars, flowVars, sla, checklistVars, enforceVars,
                 sessionVars, confirmVars>>

CallStep(c) ==
  \/ \E tenant_id \in TenantIds, operation \in Operations, idempotency_key \in IdempotencyKeys :
       _call(c, tenant_id, operation, idempotency_key)
  \/ \E answer \in HttpAnswers : post_returns(c, answer)
  \/ _sleep_before_retry(c)

NextBitrix == \E c \in BitrixCallIds : CallStep(c)

SpecBitrix == InitBitrix /\ [][NextBitrix]_vars

\* every request is answered and every sleep ends
FairBitrix == SpecBitrix /\ \A c \in BitrixCallIds : WF_vars(CallStep(c))

(***************************************************************************)
(* Part XI: the passport steps of the bot registration dialogue            *)
(* (bot/fsm/handlers_registration.py).  One chat: its Form state, its      *)
(* session and the log lines that name a new registration or the decision  *)
(* taken on a passport photo.  A message a handler answers without         *)
(* changing anything (a wrong button, an empty text) is not a step.        *)
(***************************************************************************)
\* the handlers log at most MaxLogged lines
MaxLogged == 5

\* the passports of one registration are numbered 1..MaxPassports
MaxPassports == 2

\* config.OCR_SLA_MANUAL_INPUT_AFTER_SECOND_CYCLE, default
OCR_SLA_MANUAL_INPUT_AFTER_SECOND_CYCLE == TRUE

\* what the handler reads of the result of ocr_pipeline_extract: the decision branch,
\* the timeout flag, quality["needs_retry"] and whether any field was parsed
OcrResults ==
  [decision_branch : {"auto_accept", "preview_required", "soft_fail"},
   timeout_flag : BOOLEAN, needs_retry : BOOLEAN, parsed : BOOLEAN]

_new_session ==
  [num_people_expected |-> 0, current_passport_index |-> 1, passports |-> {},
   ocr_cycle_counter |-> 0, ocr_retry_counter |-> 0, last_ocr_decision |-> "None"]

\* logger.info("FSM step entered: choosing_manager")
StartLine ==
  [event |-> "choosing_manager", passport_index |-> 0, decision |-> "None",
   manual_mode_triggered |-> FALSE]

\* logger.info("OCR_SLA_DECISION passport_index=%s ... decision=%s ... manual_mode_triggered=%s")
DecisionLine(passport_index, decision, manual_mode_triggered) ==
  [event |-> "OCR_SLA_DECISION", passport_index |-> passport_index, decision |-> decision,
   manual_mode_triggered |-> manual_mode_triggered]

\* passports without the entry of this index, plus the new entry; the list the code
\* keeps sorted by index holds one entry per index and is modelled as a set
with_passport(passports, entry) ==
  {p \in passports : p.index # entry.index} \cup {entry}

\* the session after the counters of lines 435-448 are updated
counted(s, branch) ==
  [s EXCEPT !.last_ocr_decision = branch,
            !.ocr_retry_counter = @ + 1,
            !.ocr_cycle_counter = IF branch = "soft_fail" THEN @ + 1 ELSE @]

\* manual_mode_triggered of lines 441-448
manual_mode_triggered(s, branch) ==
  /\ branch = "soft_fail"
  /\ OCR_SLA_MANUAL_INPUT_AFTER_SECOND_CYCLE
  /\ counted(s, branch).ocr_cycle_counter >= 2

\* await _go_to_step(..., next_state=...), with the session stored before it
GoToStep(next_state, stored) ==
  /\ form_state' = next_state
  /\ session' = stored

InitSession ==
  /\ SessionIdle
  /\ OrchIdle /\ PipeIdle /\ sla = None /\ ChecklistIdle /\ EnforceIdle /\ FlowIdle
  /\ BitrixIdle /\ ConfirmIdle

\* /start is served in every state
start_registration ==
  /\ Len(sla_decisions) < MaxLogged
  /\ GoToStep("choosing_manager", _new_session)
  /\ sla_decisions' = Append(sla_decisions, StartLine)
  /\ UNCHANGED <<orchVars, pipeVars, flowVars, sla, checklistVars, enforceVars,
                 bitrixVars, confirmVars>>

process_manager ==
  /\ form_state = "choosing_manager"
  /\ GoToStep("ask_district", session)
  /\ UNCHANGED sla_decisions
  /\ UNCHANGED <<orchVars, pipeVars, flowVars, sla, checklistVars, enforceVars,
                 bitrixVars, confirmVars>>

process_district ==
  /\ form_state = "ask_district"
  /\ GoToStep("ask_address", session)
  /\ UNCHANGED sla_decisions
  /\ UNCHANGED <<orchVars, pipeVars, flowVars, sla, checklistVars, enforceVars,
                 bitrixVars, confirmVars>>

process_address ==
  /\ form_state = "ask_address"
  /\ GoToStep("ask_num_people", session)
  /\ UNCHANGED sla_decisions
  /\ UNCHANGED <<orchVars, pipeVars, flowVars, sla, checklistVars, enforceVars,
                 bitrixVars, confirmVars>>

process_num_people(num_people) ==
  /\ form_state = "ask_num_people"
  /\ GoToStep("ask_passport_photo",
              [session EXCEPT !.num_people_expected = num_people,
                              !.current_passport_index = 1, !.passports = {}])
  /\ UNCHANGED sla_decisions
  /\ UNCHANGED <<orchVars, pipeVars, flowVars, sla, checklistVars, enforceVars,
                 bitrixVars, confirmVars>>

\* process_passport_photo and process_passport_rescan_photo
_process_passport_photo_common(ocr_result) ==
  /\ form_state \in {"ask_passport_photo", "rescan_passport"}
  /\ Len(sla_decisions) < MaxLogged
  /\ LET passport_index == session.current_passport_index
         branch == ocr_result.decision_branch
         stored == counted(session, branch)
         manual == manual_mode_triggered(session, branch)
         passport_entry == [index |-> passport_index,
                            confirmed |-> branch = "auto_accept",
                            ocr_source |-> "ocr"]
     IN /\ sla_decisions' =
             Append(sla_decisions, DecisionLine(passport_index, branch, manual))
        /\ IF branch = "soft_fail" \/ ocr_result.timeout_flag
              \/ ocr_result.needs_retry
           THEN GoToStep(IF manual THEN "manual_input_mode" ELSE "rescan_passport", stored)
           ELSE IF ~ocr_result.parsed
           THEN GoToStep("rescan_passport", stored)
           ELSE GoToStep(IF branch = "auto_accept"
                         THEN "ask_add_another_passport" ELSE "confirm_passport_fields",
                         [stored EXCEPT !.passports = with_passport(@, passport_entry)])
  /\ UNCHANGED <<orchVars, pipeVars, flowVars, sla, checklistVars, enforceVars,
                 bitrixVars, confirmVars>>

\* a text of six fields separated by semicolons
process_manual_input_mode ==
  /\ form_state = "manual_input_mode"
  /\ GoToStep("ask_add_another_passport",
              [session EXCEPT !.passports =
                 with_passport(@, [index |-> session.current_passport_index,
                                   confirmed |-> TRUE, ocr_source |-> "manual_input"])])
  /\ UNCHANGED sla_decisions
  /\ UNCHANGED <<orchVars, pipeVars, flowVars, sla, checklistVars, enforceVars,
                 bitrixVars, confirmVars>>

process_passport_confirmation(yes) ==
  /\ form_state = "confirm_passport_fields"
  /\ GoToStep(IF yes THEN "ask_add_another_passport" ELSE "ask_passport_photo",
              [session EXCEPT !.passports =
                 {IF p.index = session.current_passport_index
                  THEN [p EXCEPT !.confirmed = yes] ELSE p : p \in @}])
  /\ UNCHANGED sla_decisions
  /\ UNCHANGED <<orchVars, pipeVars, flowVars, sla, checklistVars, enforceVars,
                 bitrixVars, confirmVars>>

process_retry_passport ==
  /\ form_state = "confirm_passport_fields"
  /\ GoToStep("ask_passport_photo",
              [session EXCEPT !.passports =
                 {p \in @ : p.index # session.current_passport_index}])
  /\ UNCHANGED sla_decisions
  /\ UNCHANGED <<orchVars, pipeVars, flowVars, sla, checklistVars, enforceVars,
                 bitrixVars, confirmVars>>

process_add_another_passport(yes) ==
  /\ form_state = "ask_add_another_passport"
  /\ IF yes
     THEN /\ session.current_passport_index < MaxPassports
          /\ GoToStep("ask_passport_photo",
                      [session EXCEPT !.current_passport_index = @ + 1])
     ELSE /\ Cardinality({p \in session.passports : p.confirmed})
               >= session.num_people_expected
          /\ GoToStep("ask_contacts", session)
  /\ UNCHANGED sla_decisions
  /\ UNCHANGED <<orchVars, pipeVars, flowVars, sla, checklistVars, enforceVars,
                 bitrixVars, confirmVars>>

NextSession ==
  \/ start_registration
  \/ process_manager
  \/ process_district
  \/ process_address
  \/ \E num_people \in 1..MaxPassports : process_num_people(num_people)
  \/ \E ocr_result \in OcrResults : _process_passport_photo_common(ocr_result)
  \/ process_manual_input_mode
  \/ \E yes \in BOOLEAN : process_passport_confirmation(yes)
  \/ process_retry_passport
  \/ \E yes \in BOOLEAN : process_add_another_passport(yes)

SpecSession == InitSession /\ [][NextSession]_vars

(***************************************************************************)
(* Part XII: on_final_confirm of bot/main.py with USE_REDIS off.  Each chat *)
(* holds the residents its registration has collected; its handler         *)
(* suspends at the requests to Bitrix, where the handler of another chat   *)
(* can run; is_duplicate_hash and remember_hash do not suspend.            *)
(***************************************************************************)
\* a chat presses "confirm" at most MaxConfirms times
MaxConfirms == 2

ChatIds == {1, 2}

\* resident["passport_hash"]; "" when no hash was computed
PassportHashes == {"", "h1", "h2"}

\* the residents of a registration, by their passport hashes
ResidentLists ==
  {<<h>> : h \in PassportHashes} \cup {<<h, g>> : h \in PassportHashes, g \in PassportHashes}

\* passport_hash in SEEN_HASHES_LOCAL
is_duplicate_hash(seen, passport_hash) == passport_hash \in seen

\* SEEN_HASHES_LOCAL.add(passport_hash) for every resident with a hash
remember_hash(seen, residents) ==
  seen \cup {residents[i] : i \in {k \in DOMAIN residents : residents[k] # ""}}

\* the first loop of on_final_confirm: some resident has a hash that is_duplicate_hash finds
already_registered(seen, residents) ==
  \E i \in DOMAIN residents : residents[i] # "" /\ is_duplicate_hash(seen, residents[i])

InitConfirm ==
  /\ SEEN_HASHES_LOCAL = {}
  /\ leads = <<>>
  /\ confirms \in [ChatIds -> {[pc |-> "none", residents |-> r, idx |-> 0, pressed |-> 0,
                               answer |-> "None"] : r \in ResidentLists}]
  /\ OrchIdle /\ PipeIdle /\ sla = None /\ ChecklistIdle /\ EnforceIdle /\ FlowIdle
  /\ BitrixIdle /\ SessionIdle

\* on_final_confirm up to its first request to Bitrix, or to the "already registered" answer
on_final_confirm(chat) ==
  /\ confirms[chat].pc \in {"none", "ended"}
  /\ confirms[chat].answer # "sent"
  /\ confirms[chat].pressed < MaxConfirms
  /\ confirms' = [confirms EXCEPT ![chat] =
       IF already_registered(SEEN_HASHES_LOCAL, @.residents)
       THEN [@ EXCEPT !.pc = "ended", !.pressed = @ + 1, !.idx = 0,
                      !.answer = "already_registered"]
       ELSE [@ EXCEPT !.pc = "create_bitrix_lead", !.pressed = @ + 1, !.idx = 1,
                      !.answer = "None"]]
  /\ UNCHANGED <<SEEN_HASHES_LOCAL, leads>>
  /\ UNCHANGED <<orchVars, pipeVars, flowVars, sla, checklistVars, enforceVars,
                 bitrixVars, sessionVars>>

\* create_bitrix_lead returns a lead id, or None when the request failed
create_bitrix_lead(chat, created) ==
  /\ confirms[chat].pc = "create_bitrix_lead"
  /\ LET this == confirms[chat]
     IN IF created
        THEN /\ leads' = Append(leads, [chat |-> chat, passport_hash |-> this.residents[this.idx]])
             /\ confirms' = [confirms EXCEPT ![chat] =
                  IF this.idx < Len(this.residents)
                  THEN [this EXCEPT !.idx = @ + 1]
                  ELSE [this EXCEPT !.pc = "crm.deal.add"]]
        ELSE /\ leads' = leads
             /\ confirms' = [confirms EXCEPT ![chat] =
                  [this EXCEPT !.pc = "ended", !.answer = "error"]]
  /\ UNCHANGED SEEN_HASHES_LOCAL
  /\ UNCHANGED <<orchVars, pipeVars, flowVars, sla, checklistVars, enforceVars,
                 bitrixVars, sessionVars>>

\* bitrix_post("crm.deal.add") returns; with a deal id the hashes are remembered
bitrix_post(chat, created) ==
  /\ confirms[chat].pc = "crm.deal.add"
  /\ confirms' = [confirms EXCEPT ![chat] =
       [@ EXCEPT !.pc = "ended", !.answer = IF created THEN "sent" ELSE "error"]]
  /\ SEEN_HASHES_LOCAL' =
       IF created THEN remember_hash(SEEN_HASHES_LOCAL, confirms[chat].residents)
       ELSE SEEN_HASHES_LOCAL
  /\ UNCHANGED leads
  /\ UNCHANGED <<orchVars, pipeVars, flowVars, sla, checklistVars, enforceVars,
                 bitrixVars, sessionVars>>

NextConfirm ==
  \E chat \in ChatIds :
    \/ on_final_confirm(chat)
    \/ \E created \in BOOLEAN : create_bitrix_lead(chat, created)
    \/ \E created \in BOOLEAN : bitrix_post(chat, created)

SpecConfirm == InitConfirm /\ [][NextConfirm]_vars

(***************************************************************************)
(* Properties of Part I (checked under Spec).                              *)
(***************************************************************************)
\* the step is the return of job j's pipeline call and the rest of that iteration
AttemptStep(j) == task[j].pc = "pipeline" /\ task'[j] # task[j]

\* C1: once process_job has auto-accepted a job with a non-empty passport hash, the
\* hash is in the duplicate index and stays there, and every later attempt of any
\* job that extracts a hash found in the index ends that job as duplicate_detected,
\* with the duplicate flag set in its result, whatever bytes were fetched.
C1_DuplicateAfterAccept ==
  [][ /\ DOMAIN mrz_index \subseteq DOMAIN mrz_index'
      /\ \A j \in DOMAIN jobs :
           AttemptStep(j) =>
             LET h == jobs'[j].result.mrz.passport_hash
             IN /\ (task'[j].pc = "await_resident" /\ jobs'[j].status = "auto_accepted"
                      /\ h # "")
                     => h \in DOMAIN mrz_index'
                /\ (h # "" /\ h \in DOMAIN mrz_index)
                     => /\ jobs'[j].status = "duplicate_detected"
                        /\ jobs'[j].result.duplicate_detected
                        /\ task'[j].pc = "await_resident" ]_vars

\* C1 witness: job2 ended as a duplicate of the hash job1 registered, from other bytes
C1_Witness ==
  /\ DOMAIN jobs = JobIds
  /\ "h1" \in DOMAIN mrz_index /\ mrz_index["h1"] = "job1"
  /\ jobs["job2"].status = "duplicate_detected"
  /\ jobs["job2"].result.duplicate_detected
  /\ jobs["job2"].result.mrz.passport_hash = "h1"
  /\ jobs["job1"].content_hash # jobs["job2"].content_hash

\* C2: a terminal status never changes again, except that manual_review may set it
\* to auto_accepted.
C2_TerminalIsFinal ==
  [][ \A j \in DOMAIN jobs :
        (jobs[j].status \in TerminalStatuses /\ jobs'[j].status # jobs[j].status)
          => (jobs'[j].status = "auto_accepted" /\ reviews' # reviews) ]_vars

\* C3: every step that sets a job to a terminal status invokes
\* create_or_update_resident for it, and the three operations are invoked in order
\* (an operation is never invoked more often than the one before it).
C3_TerminalNotifiesCrm ==
  [][ \A j \in DOMAIN jobs :
        /\ (jobs'[j].status \in TerminalStatuses /\ jobs'[j].status # jobs[j].status)
             => crm_calls'[j].create_or_update_resident
                  = crm_calls[j].create_or_update_resident + 1
        /\ crm_calls'[j].create_or_update_resident >= crm_calls'[j].attach_document_links
        /\ crm_calls'[j].attach_document_links >= crm_calls'[j].send_webhook_result ]_vars

\* C4: an attempt that is not a duplicate ends the job as auto_accepted exactly when
\* SLAEngine.decide returns auto_accepted for that attempt.
C4_AcceptIffDecisionAccepts ==
  [][ \A j \in DOMAIN jobs :
        (AttemptStep(j) /\ ~jobs'[j].result.duplicate_detected)
          => ( (task'[j].pc = "await_resident" /\ jobs'[j].status = "auto_accepted")
               <=> decide(jobs'[j].result.mrz, jobs[j].cycle_count, settings).status
                     = "auto_accepted" ) ]_vars

\* C5 (decide): manual_review is returned only at cycle_count >= 2 with the flag on
C5_DecideOnlyAfterSecondCycle ==
  \A c \in DecideConfidences, ok \in BOOLEAN, n \in DecideCycles, cfg \in DecideSettings :
    decide([confidence |-> c, checksum_ok |-> ok], n, cfg).status = "manual_review"
      => (n >= 2 /\ cfg.manual_after_second_cycle)

\* C5: manual review never fires on the first cycle: decide returns manual_review
\* only when cycle_count >= 2 and manual_after_second_cycle is enabled, and a job
\* in status manual_review has been through at least two local attempts.
C5_NoManualReviewOnFirstCycle ==
  /\ C5_DecideOnlyAfterSecondCycle
  /\ \A j \in DOMAIN jobs :
       jobs[j].status = "manual_review"
         => (jobs[j].cycle_count >= 2 /\ settings.manual_after_second_cycle)

\* C5 witness: a job sent to manual review in its second cycle
C5_Witness ==
  \E j \in DOMAIN jobs :
    /\ jobs[j].status = "manual_review"
    /\ jobs[j].cycle_count = 2
    /\ jobs[j].audit_trail = <<"submitted", "processing_started",
                               "local_attempt", "local_attempt">>

\* C7: no local attempt is started once the elapsed time exceeds total_timeout
C7_NoAttemptAfterBudget ==
  \A j \in DOMAIN jobs :
    task[j].pc = "pipeline" => task[j].elapsed <= settings.total_timeout

\* C10: every auto_accepted job with a non-empty passport hash has it in mrz_index
C10_AcceptedHashIndexed ==
  \A j \in DOMAIN jobs :
    (jobs[j].status = "auto_accepted" /\ jobs[j].result # None
       /\ jobs[j].result.mrz.passport_hash # "")
      => jobs[j].result.mrz.passport_hash \in DOMAIN mrz_index

\* the value the corrections give for field f (the dict holds each name once)
CorrectedValue(c, f) == c[CHOOSE k \in 1..Len(c) : c[k][1] = f][2]

\* C11: a manual_review call on a job with a stored result sets every corrected field
\* that exists on the MRZ record to the given value, leaves the other MRZ fields, the
\* quality data, cycle_count and the duplicate index unchanged (unknown names are
\* ignored), sets the status to auto_accepted, appends exactly one audit entry
\* 'manual_review_applied' and starts one CRM notification.
C11_ManualReviewEffect ==
  [][ \A r \in ReviewIds :
        (reviews[r].pc = "idle" /\ reviews'[r].pc # "idle")
          => LET j == reviews'[r].job
                 c == reviews'[r].corrections
                 old == jobs[j]
                 new == jobs'[j]
             IN /\ DOMAIN new.result.mrz = DOMAIN old.result.mrz
                /\ \A f \in DOMAIN old.result.mrz :
                     new.result.mrz[f] = IF \E k \in 1..Len(c) : c[k][1] = f
                                           THEN CorrectedValue(c, f)
                                           ELSE old.result.mrz[f]
                /\ new.result.quality = old.result.quality
                /\ new.result.duplicate_detected = old.result.duplicate_detected
                /\ new.cycle_count = old.cycle_count
                /\ mrz_index' = mrz_index
                /\ new.status = "auto_accepted"
                /\ new.audit_trail = Append(old.audit_trail, "manual_review_applied")
                /\ crm_calls'[j].create_or_update_resident
                     = crm_calls[j].create_or_update_resident + 1 ]_vars

\* C12: every submitted job eventually reaches a terminal status when its processing
\* task is scheduled fairly, also when the storage fetch or a CRM call raises.
C12_EveryJobTerminates ==
  \A j \in JobIds :
    (j \in DOMAIN jobs) ~> (j \in DOMAIN jobs /\ jobs[j].status \in TerminalStatuses)

\* s is an initial segment of t
IsPrefix(s, t) == Len(s) <= Len(t) /\ SubSeq(t, 1, Len(s)) = s

\* C13 (states): the first entry is 'submitted' and 'processing_started' precedes
\* every 'local_attempt' entry
C13_AuditOrdered ==
  \A j \in DOMAIN jobs :
    LET trail == jobs[j].audit_trail
    IN /\ Len(trail) >= 1 /\ trail[1] = "submitted"
       /\ \A k \in 1..Len(trail) :
            trail[k] = "local_attempt"
              => \E i \in 1..(k - 1) : trail[i] = "processing_started"

\* C13 (steps): every step keeps the existing entries in place and only adds at the end
C13_AuditSteps ==
  /\ DOMAIN jobs \subseteq DOMAIN jobs'
  /\ \A j \in DOMAIN jobs : IsPrefix(jobs[j].audit_trail, jobs'[j].audit_trail)

\* C13: a job's audit trail is append-only and ordered: every operation leaves the
\* existing entries unchanged and in place and only adds entries at the end; the first
\* entry is 'submitted' and 'processing_started' precedes every 'local_attempt'.
C13_AuditAppendOnly == []C13_AuditOrdered /\ [][C13_AuditSteps]_vars

\* C13 witness: a trail written by submit, process_job and manual_review in turn
C13_Witness ==
  \E j \in DOMAIN jobs :
    jobs[j].audit_trail = <<"submitted", "processing_started", "local_attempt",
                            "local_attempt", "manual_review_applied">>

\* a step in which the process_job task of job j sets it to auto_accepted (line 109)
AcceptStep(j) ==
  /\ AttemptStep(j)
  /\ task'[j].pc = "await_resident"
  /\ jobs'[j].status = "auto_accepted"

\* C33: at most one job per non-empty passport hash is auto-accepted through
\* process_job, whatever the interleaving of the tasks: a task accepts a job only in
\* the step of its own duplicate lookup, with the hash not yet registered, and
\* registers it under its own job id; a registered hash is never removed or
\* overwritten with another job id.
C33_OneAcceptedJobPerHash ==
  [][ /\ \A h \in DOMAIN mrz_index : h \in DOMAIN mrz_index' /\ mrz_index'[h] = mrz_index[h]
      /\ \A j \in DOMAIN jobs :
           LET h == jobs'[j].result.mrz.passport_hash
           IN (AcceptStep(j) /\ h # "")
                => /\ h \notin DOMAIN mrz_index
                   /\ h \in DOMAIN mrz_index' /\ mrz_index'[h] = j ]_vars

\* both tasks read the same hash while the other was suspended in its notification:
\* the first is accepted and registered, the second ends as a duplicate
C33_Witness ==
  /\ "h1" \in DOMAIN mrz_index
  /\ \E j, k \in DOMAIN jobs :
       /\ j # k /\ mrz_index["h1"] = j
       /\ jobs[j].status = "auto_accepted" /\ task[j].pc \in NotifyPcs
       /\ jobs[k].status = "duplicate_detected" /\ task[k].pc \in NotifyPcs
       /\ jobs[k].result.mrz.passport_hash = "h1"

\* a step in which a manual_review call on job j runs up to its first await
\* (orchestrator.py lines 131-142)
ReviewStep(j) ==
  \E r \in ReviewIds :
    reviews[r].pc = "idle" /\ reviews'[r].pc = "await_resident" /\ reviews'[r].job = j

\* C34: manual_review re-opens only jobs that wait for manual review: it sets a job
\* to auto_accepted only when the job's status was manual_review; a duplicate_detected,
\* failed or processing job is never made auto_accepted by it.
C34_ReviewReopensOnlyManualReview ==
  [][ \A j \in DOMAIN jobs :
        (ReviewStep(j) /\ jobs[j].status # "auto_accepted"
                       /\ jobs'[j].status = "auto_accepted")
          => jobs[j].status = "manual_review" ]_vars

\* C35: process_job never sets a job to auto_accepted on an attempt whose recorded
\* quality signals a retry (exposure_score < 0.5, lighting_ok false): a job accepted by
\* process_job has result.quality.lighting_ok true.
C35_NoAcceptOnRetryQuality ==
  [][ \A j \in DOMAIN jobs :
        AcceptStep(j) => jobs'[j].result.quality.lighting_ok ]_vars

\* the number of 'local_attempt' entries in the audit trail of a job
LocalAttemptEntries(job) ==
  Cardinality({i \in DOMAIN job.audit_trail : job.audit_trail[i] = "local_attempt"})

TotalBudget == OCR_SLA_TOTAL_TIMEOUT_SECONDS * 2000

\* C6 (states): an attempt in flight was started within the budget, and a return
\* whose final elapsed time is over the budget is a soft_fail with timeout_flag
C6_BudgetStates ==
  /\ pipe.pc = "local_attempt" => monotonic - pipe.started_at <= TotalBudget
  /\ pipe.pc = "future_result" => pipe.fallback_started - pipe.started_at <= TotalBudget
  /\ (pipe.pc = "returned"
        /\ returned.total_elapsed_ms > OCR_SLA_TOTAL_TIMEOUT_SECONDS * 1000)
       => (returned.decision_branch = "soft_fail" /\ returned.timeout_flag)

\* C6 (steps): a loop head that finds the budget exceeded returns at once
C6_BudgetSteps ==
  (pipe.pc \in {"local_loop", "fallback_loop"}
     /\ monotonic - pipe.started_at > TotalBudget)
    => /\ pipe'.pc = "returned"
       /\ returned'.decision_branch = "soft_fail"
       /\ returned'.timeout_flag
       /\ worker' = worker

\* C6: the total budget is checked before every local and every fallback attempt, no
\* attempt starts once it is exceeded, and whenever it is found exceeded the function
\* returns soft_fail with timeout_flag true, whatever the attempts produced.
C6_BudgetCheckedBeforeEveryAttempt == []C6_BudgetStates /\ [][C6_BudgetSteps]_vars

\* C6 witness: a successful local attempt that ran over the budget, answered soft_fail
C6_Witness ==
  /\ pipe.pc = "returned"
  /\ pipe.last_result # None /\ ~pipe.local_failed
  /\ pipe.last_result.source = "mrz"
  /\ returned.decision_branch = "soft_fail" /\ returned.timeout_flag
  /\ returned.total_elapsed_ms > OCR_SLA_TOTAL_TIMEOUT_SECONDS * 1000

\* C8: when a local attempt succeeded (and the budget held), no fallback call is made
\* and the returned result and branch are those of that local attempt.
C8_NoFallbackAfterLocalSuccess ==
  (pipe.pc = "returned" /\ ~pipe.local_failed /\ ~returned.timeout_flag)
    => /\ pipe.fallback_attempts = 0
       /\ returned.source = "mrz"
       /\ returned.parsed.present
       /\ returned.decision_branch = "auto_accept"

\* C9: a fallback call that exceeds its timeout is abandoned: control is back in
\* ocr_pipeline_extract at the deadline, not when the call ends, and the late text of
\* the call is not in the result.
C9_TimedOutCallIsAbandoned ==
  [][ (pipe.pc = "executor_shutdown" /\ pipe'.pc # "executor_shutdown")
        => /\ monotonic' = fallback_deadline(pipe)
           /\ (pipe'.last_result # None => pipe'.last_result.text.by # "vision") ]_vars

\* C14: the needs-retry rule is evaluated first: a returned result whose quality has
\* needs_retry true (confidence below threshold, checksum not fully valid, blur bad or
\* exposure score < 0.5) has decision_branch soft_fail whatever its confidence, so a
\* returned auto_accept or preview_required implies checksum_ok, blur not bad and
\* exposure score >= 0.5.
C14_NeedsRetryFirst ==
  pipe.pc = "returned"
    => LET q == returned.quality
       IN /\ q.needs_retry <=> (\/ q.confidence < OCR_SLA_FALLBACK_THRESHOLD_CONFIDENCE
                                \/ ~q.checksum_ok
                                \/ q.blur_bad
                                \/ q.exposure_score < 50)
          /\ q.needs_retry => returned.decision_branch = "soft_fail"
          /\ returned.decision_branch \in {"auto_accept", "preview_required"}
               => (q.checksum_ok /\ ~q.blur_bad /\ q.exposure_score >= 50)

\* C14 witness: a valid MRZ read with confidence 0.9 from a blurry image, in time,
\* is answered soft_fail
C14_Witness ==
  /\ pipe.pc = "returned"
  /\ ~returned.timeout_flag
  /\ returned.source = "mrz"
  /\ returned.quality.needs_retry /\ returned.quality.blur_bad
  /\ returned.quality.checksum_ok
  /\ returned.quality.confidence >= OCR_SLA_AUTO_ACCEPT_CONFIDENCE
  /\ returned.decision_branch = "soft_fail"

(***************************************************************************)
(* Properties of Part III (checked under SpecDecide).                      *)
(***************************************************************************)
\* how permissive a verdict is: manual review is the escalation, auto-accept the
\* most permissive
Permissiveness(status) ==
  CASE status = "manual_review" -> 0
    [] status = "processing" -> 1
    [] status = "auto_accepted" -> 2

\* C15: with manual_after_second_cycle enabled, for a fixed confidence and checksum
\* value the verdict of decide at cycle N+1 is never more permissive than at cycle N,
\* and a manual_review verdict at some cycle is manual_review at every later cycle.
C15_MonotonicEscalation ==
  sla # None /\ sla.cfg.manual_after_second_cycle
    => \A n \in 1..(Len(sla.verdicts) - 1) :
         /\ Permissiveness(sla.verdicts[n + 1]) <= Permissiveness(sla.verdicts[n])
         /\ sla.verdicts[n] = "manual_review" => sla.verdicts[n + 1] = "manual_review"

\* C15 witness: a reading decided processing at cycles 0 and 1 and manual_review at
\* cycles 2 and 3
C15_Witness ==
  /\ sla # None /\ sla.cfg.manual_after_second_cycle
  /\ Len(sla.verdicts) >= 4
  /\ SubSeq(sla.verdicts, 1, 4) = <<"processing", "processing", "manual_review", "manual_review">>

(***************************************************************************)
(* Properties of Part IV (checked under SpecChecklist).                    *)
(***************************************************************************)
\* the call was evaluate_checklist, or evaluate_for_fsm with a checklist built
EvaluatedChecklist ==
  \/ call # None /\ call.op = "evaluate_checklist"
  \/ /\ call # None /\ call.op = "evaluate_for_fsm"
     /\ build_checklist(registry, call.resident_profile).raised = "None"

\* the ChecklistResult the call produced
ResultOfCall ==
  IF call.op = "evaluate_checklist" THEN outcome.value ELSE outcome.value.checklist_snapshot

\* the trace has an entry of this rule
Traced(result, rule) ==
  \E k \in 1..Len(result.decision_trace) : result.decision_trace[k].rule = rule

\* two documents of the batch carry the same passport hash
SharedHash(docs) ==
  \E i, j \in 1..Len(docs) : i # j /\ docs[i].passport_hash = docs[j].passport_hash

\* the call came back with blocking items and had an override request
OverrideAsked ==
  /\ EvaluatedChecklist /\ outcome.raised = "None"
  /\ ResultOfCall.blocking_items # <<>>
  /\ call.override_request # None

\* C16 as stated: with blocking items, an override request of a non-privileged role
\* never makes all_required_satisfied true and is recorded as 'override_denied_role';
\* one with the privileged role and a non-empty reason makes all_required_satisfied
\* true, sets manager_override_used and records 'override_approved'.
C16_OverrideGating ==
  OverrideAsked
    => IF call.override_request.manager_role # "supervisor"
         THEN /\ ~ResultOfCall.all_required_satisfied
              /\ Traced(ResultOfCall, "override_denied_role")
         ELSE /\ ResultOfCall.all_required_satisfied
              /\ ResultOfCall.manager_override_used
              /\ Traced(ResultOfCall, "override_approved")

\* C16 amended: the same when manual override is globally allowed
\* (allow_manual_override); when it is not, no override request changes the result or
\* is recorded: all_required_satisfied stays false, manager_override_used is not set
\* and the trace has neither entry.
C16_OverrideGatingWhenAllowed ==
  OverrideAsked
    => IF ~engine_settings.allow_manual_override
         THEN /\ ~ResultOfCall.all_required_satisfied
              /\ ~ResultOfCall.manager_override_used
              /\ ~Traced(ResultOfCall, "override_denied_role")
              /\ ~Traced(ResultOfCall, "override_approved")
       ELSE IF call.override_request.manager_role # "supervisor"
         THEN /\ ~ResultOfCall.all_required_satisfied
              /\ ~ResultOfCall.manager_override_used
              /\ Traced(ResultOfCall, "override_denied_role")
              /\ ~Traced(ResultOfCall, "override_approved")
         ELSE /\ ResultOfCall.all_required_satisfied
              /\ ResultOfCall.manager_override_used
              /\ Traced(ResultOfCall, "override_approved")

\* C16 witness: a manager's override of a blocked checklist was denied
C16_Witness ==
  /\ OverrideAsked
  /\ engine_settings.allow_manual_override
  /\ call.override_request.manager_role = "manager"
  /\ ~ResultOfCall.all_required_satisfied
  /\ Traced(ResultOfCall, "override_denied_role")

\* a document that meets the three conditions of validity
GoodDocument(doc) ==
  /\ doc.ocr_confidence >= confidence_threshold
  /\ doc.mrz_checksum_valid
  /\ doc.expiry_date # <<>> => doc.expiry_date[1] >= Today

\* the checklist the call evaluated
ChecklistOfCall ==
  IF call.op = "evaluate_checklist" THEN call.checklist
  ELSE build_checklist(registry, call.resident_profile).value

\* C17: when no two documents share a passport hash and every required document type
\* of the checklist has a submitted document with confidence at or above the
\* threshold, valid checksum and non-expired date, evaluate_checklist returns
\* all_required_satisfied true, no blocking item and manager_override_used false, and
\* evaluate_for_fsm returns status OK.
C17_ChecklistCompleteness ==
  (/\ EvaluatedChecklist
   /\ ~SharedHash(call.resident_docs)
   /\ \A k \in 1..Len(ChecklistOfCall) :
        ChecklistOfCall[k].required
          => \E d \in 1..Len(call.resident_docs) :
               /\ call.resident_docs[d].doc_type = ChecklistOfCall[k].code[2]
               /\ GoodDocument(call.resident_docs[d]))
    => /\ outcome.raised = "None"
       /\ ResultOfCall.all_required_satisfied
       /\ ResultOfCall.blocking_items = <<>>
       /\ ~ResultOfCall.manager_override_used
       /\ call.op = "evaluate_for_fsm" => outcome.value.status = "OK"

\* C18: whenever two or more documents of the batch share a passport hash,
\* evaluate_checklist raises DuplicateDocumentError and produces no result, whatever
\* the checklist and the override request; evaluate_for_fsm then returns no status and
\* appends no audit record.
C18_DuplicateGuard ==
  [][(call' # call /\ call'.op \in {"evaluate_checklist", "evaluate_for_fsm"}
        /\ SharedHash(call'.resident_docs))
       => /\ outcome'.raised # "None"
          /\ EvaluatedChecklist' => outcome'.raised = "DuplicateDocumentError"
          /\ sink' = sink /\ logged' = logged]_vars

\* C18 witness: a supervisor's override does not get a batch with a shared hash
\* through evaluate_for_fsm
C18_Witness ==
  /\ call # None /\ call.op = "evaluate_for_fsm"
  /\ EvaluatedChecklist
  /\ Len(call.resident_docs) = 2
  /\ call.resident_docs[1].doc_type # call.resident_docs[2].doc_type
  /\ SharedHash(call.resident_docs)
  /\ call.override_request # None /\ call.override_request.manager_role = "supervisor"
  /\ engine_settings.allow_manual_override
  /\ outcome.raised = "DuplicateDocumentError"
  /\ Cardinality(DOMAIN sink) = 1 /\ Len(logged) = 1

\* C19: validate_bundle and evaluate_multi_resident_deal raise, and return no
\* grouping, for any batch in which documents of two different residents carry the
\* same passport hash.
C19_HashNeverSharedAcrossResidents ==
  (call # None /\ call.op \in {"validate_bundle", "evaluate_multi_resident_deal"}
     /\ \E i, j \in 1..Len(call.documents) :
          /\ call.documents[i].resident_id # call.documents[j].resident_id
          /\ call.documents[i].passport_hash = call.documents[j].passport_hash)
    => outcome.raised # "None"

\* C20: a 2- or 3-character code that is in none of the country sets resolves to the
\* foreign_passport rule's list; if that rule is not registered, to the registered
\* fallback rule's list; NationalityRuleMissing is raised only when no fallback rule
\* is registered either.
C20_ResolveFallsThrough ==
  (/\ call # None /\ call.op = "resolve_required_docs"
   /\ NationalityLen[NationalityForms[call.nationality]] \in {2, 3}
   /\ NationalityForms[call.nationality]
        \notin cis_countries \cup visa_required_countries \cup id_card_countries)
    => IF "foreign_passport" \in DOMAIN registry._named_rules
         THEN outcome = Returned(registry._named_rules["foreign_passport"])
       ELSE IF registry._fallback_rule # <<"None">>
         THEN outcome = Returned(registry._fallback_rule)
       ELSE outcome.raised = "NationalityRuleMissing"

\* the list has an item of this code, and what the list says of it
Listed(items, code) == \E i \in 1..Len(items) : items[i].code = code
ItemIn(items, code) == items[CHOOSE i \in 1..Len(items) : items[i].code = code]

\* the positions of the documents of one type in the batch
DocsOfType(docs, doc_type) == {d \in 1..Len(docs) : docs[d].doc_type = doc_type}

\* the document the engine looks up for a type: the last one submitted
LookedUp(docs, doc_type) ==
  docs[CHOOSE d \in DocsOfType(docs, doc_type) : \A e \in DocsOfType(docs, doc_type) : e <= d]

\* the first failing rule of a document, in the order low confidence, checksum, expiry
FirstFailingRule(doc) ==
  IF ~(doc.ocr_confidence >= engine_settings.confidence_threshold \/ doc.verified_flag)
    THEN "low_ocr_no_manual_verification"
  ELSE IF ~doc.mrz_checksum_valid THEN "mrz_checksum_fail"
  ELSE "doc_expired"

ListsHolding(res, code) ==
  Cardinality({l \in {"blocking_items", "satisfied_items", "missing_items"} :
                 Listed(res[l], code)})

\* C22: in every ChecklistResult the lists blocking_items, satisfied_items and
\* missing_items partition the evaluated checklist: every item of the checklist is
\* in exactly one of the three lists, and the lists hold nothing else.
C22_ListsPartition ==
  (EvaluatedChecklist /\ outcome.raised = "None")
    => /\ \A k \in 1..Len(ChecklistOfCall) :
            ListsHolding(ResultOfCall, ChecklistOfCall[k].code) = 1
       /\ Len(ResultOfCall.blocking_items) + Len(ResultOfCall.satisfied_items)
            + Len(ResultOfCall.missing_items) = Len(ChecklistOfCall)

\* the step is a call of evaluate_for_fsm that returns
FsmReturns == call' # call /\ call'.op = "evaluate_for_fsm" /\ outcome'.raised = "None"

\* C23: evaluate_for_fsm returns OK iff the result's all_required_satisfied is true,
\* NEED_MANAGER iff it is false and manual override is globally permitted, BLOCKED iff
\* it is false and manual override is not permitted; every call that returns appends
\* exactly one audit record to the sink and returns the identifier of that record.
C23_StatusAndAuditRecord ==
  [][FsmReturns
       => LET ret == outcome'.value
              satisfied == ret.checklist_snapshot.all_required_satisfied
          IN /\ ret.status = "OK" <=> satisfied
             /\ ret.status = "NEED_MANAGER"
                  <=> (~satisfied /\ engine_settings.allow_manual_override)
             /\ ret.status = "BLOCKED"
                  <=> (~satisfied /\ ~engine_settings.allow_manual_override)
             /\ Cardinality(DOMAIN sink') = Cardinality(DOMAIN sink) + 1
             /\ DOMAIN sink' \ DOMAIN sink = {ret.audit_id}
             /\ \A id \in DOMAIN sink : sink'[id] = sink[id]]_vars

\* no entry of the trace carries a passport hash other than the mask
TraceMasked(decisions) ==
  \A k \in 1..Len(decisions) :
    "passport_hash" \in DOMAIN decisions[k].input => decisions[k].input.passport_hash = "***"

\* C25: sensitive fields of a decision trace are masked before persistence and
\* before logging: no audit record stored in the sink and no logged decision carries
\* an unmasked passport_hash in the input snapshot of a trace entry.
C25_TraceMaskedEverywhere ==
  /\ \A id \in DOMAIN sink : TraceMasked(sink[id].decisions)
  /\ \A k \in 1..Len(logged) : TraceMasked(logged[k].decisions)

\* the residents who have a document in the batch
ResidentsOf(docs) == {docs[k].resident_id : k \in 1..Len(docs)}

\* every resident of the batch has a primary document, the primary documents of a
\* resident agree on passport_hash, country_code and mrz_hash, and every other
\* document is of a secondary type
BundleConsistent(docs) ==
  \A r \in ResidentsOf(docs) :
    LET own == {k \in 1..Len(docs) : docs[k].resident_id = r}
        primary == {k \in own : docs[k].doc_type \in primary_doc_types}
    IN /\ primary # {}
       /\ \A i, j \in primary : /\ docs[i].passport_hash = docs[j].passport_hash
                                 /\ docs[i].country_code = docs[j].country_code
                                 /\ docs[i].mrz_hash = docs[j].mrz_hash
       /\ \A k \in own \ primary : docs[k].doc_type \in secondary_doc_types

\* the value is the grouping of the batch by resident, in the order submitted
IsGrouping(value, docs) ==
  /\ DOMAIN value = ResidentsOf(docs)
  /\ \A r \in DOMAIN value : value[r] = SelectSeq(docs, LAMBDA d : d.resident_id = r)

\* C26: validate_bundle returns the grouping by resident_id only if every resident of
\* the batch has a primary document, the resident's primary documents agree on
\* passport_hash, country_code and mrz_hash and every non-primary document is of a
\* secondary type; otherwise it raises ConflictingDocumentsError.
\* evaluate_multi_resident_deal raises it as well when a resident of the deal has no
\* document in the batch, and returns the deal otherwise.
C26_BundleValidation ==
  /\ (call # None /\ call.op = "validate_bundle")
       => IF BundleConsistent(call.documents)
            THEN outcome.raised = "None" /\ IsGrouping(outcome.value, call.documents)
            ELSE outcome = Raised("ConflictingDocumentsError")
  /\ (call # None /\ call.op = "evaluate_multi_resident_deal")
       => IF /\ BundleConsistent(call.documents)
             /\ \A k \in 1..Len(call.deal) : call.deal[k] \in ResidentsOf(call.documents)
            THEN outcome = Returned(call.deal)
            ELSE outcome = Raised("ConflictingDocumentsError")

\* C26 witness: two primary documents of one resident that differ only in the MRZ
\* hash are refused
C26_Witness ==
  /\ call # None /\ call.op = "validate_bundle"
  /\ Len(call.documents) = 2
  /\ call.documents[1].resident_id = call.documents[2].resident_id
  /\ call.documents[1].doc_type \in primary_doc_types
  /\ call.documents[2].doc_type \in primary_doc_types
  /\ call.documents[1].passport_hash = call.documents[2].passport_hash
  /\ call.documents[1].country_code = call.documents[2].country_code
  /\ call.documents[1].mrz_hash # call.documents[2].mrz_hash
  /\ outcome = Raised("ConflictingDocumentsError")

\* C38: in every ChecklistResult all_required_satisfied is true iff blocking_items is
\* empty or manager_override_used is true; manager_override_used is true only if
\* blocking_items is non-empty, an override request of the privileged role was given
\* and manual override is globally allowed; with no blocking items an override request
\* leaves no trace entry and sets no flag.
C38_OverrideFlagConsistency ==
  (EvaluatedChecklist /\ outcome.raised = "None")
    => /\ ResultOfCall.all_required_satisfied
            <=> (ResultOfCall.blocking_items = <<>> \/ ResultOfCall.manager_override_used)
       /\ ResultOfCall.manager_override_used
            => /\ ResultOfCall.blocking_items # <<>>
               /\ call.override_request # None
               /\ call.override_request.manager_role = "supervisor"
               /\ engine_settings.allow_manual_override
       /\ ResultOfCall.blocking_items = <<>>
            => /\ ~ResultOfCall.manager_override_used
               /\ ~Traced(ResultOfCall, "override_approved")
               /\ ~Traced(ResultOfCall, "override_denied_role")

\* a supervisor's override request came with a checklist that had nothing blocking
C38_Witness ==
  /\ EvaluatedChecklist /\ outcome.raised = "None"
  /\ engine_settings.allow_manual_override
  /\ call.override_request # None /\ call.override_request.manager_role = "supervisor"
  /\ ResultOfCall.satisfied_items # <<>>
  /\ ResultOfCall.blocking_items = <<>>
  /\ ResultOfCall.all_required_satisfied /\ ~ResultOfCall.manager_override_used

(***************************************************************************)
(* Properties of Part V (checked under SpecEnforce).                       *)
(***************************************************************************)
\* the positions of the requests that set this field of the lead
RequestsSetting(field) ==
  {k \in 1..Len(crm.requests) :
     crm.requests[k].method = "crm.lead.update" /\ field \in DOMAIN crm.requests[k].fields}

\* C24: enforce_crm_stage writes the checklist snapshot before any stage change; then,
\* if all_required_satisfied, it moves the lead to the unblocked stage, clears the
\* manager-verification flag and returns normally; otherwise it moves the lead to the
\* blocked stage, sets the flag and raises ChecklistBlockingError. One call never both
\* blocks and unblocks, and the stage update precedes the flag update.
C24_SnapshotThenStageThenFlag ==
  enforce # None
    => /\ crm.requests # <<>> => crm.requests[1].method = "crm.timeline.comment.add"
       /\ \A k \in RequestsSetting("STAGE_ID") :
            crm.requests[k].fields.STAGE_ID
              = IF enforce.result.all_required_satisfied THEN unblocked_stage_id
                ELSE blocked_stage_id
       /\ \A f \in RequestsSetting("UF_MANAGER_VERIFICATION_REQUIRED") :
            \E k \in RequestsSetting("STAGE_ID") : k < f
       /\ enforce.pc = "done"
            => IF enforce.result.all_required_satisfied
                 THEN /\ crm.lead.STAGE_ID = unblocked_stage_id
                      /\ crm.lead.UF_MANAGER_VERIFICATION_REQUIRED = "N"
                      /\ enforce.ended = "returned"
                 ELSE /\ crm.lead.STAGE_ID = blocked_stage_id
                      /\ crm.lead.UF_MANAGER_VERIFICATION_REQUIRED = "Y"
                      /\ enforce.ended = "ChecklistBlockingError"

(***************************************************************************)
(* Properties of Part VI (checked under SpecTd3).                          *)
(***************************************************************************)
\* the four TD3 checks of a line as the checksum algorithm defines them, every
\* character counted with its own value
ChecksAsPrinted(l2) ==
  [passport_number |-> validate_mrz_checksum(Slice(l2, 0, 9), l2[10]),
   birth_date |-> validate_mrz_checksum(Slice(l2, 13, 19), l2[20]),
   expiry_date |-> validate_mrz_checksum(Slice(l2, 21, 27), l2[28]),
   composite |-> validate_mrz_checksum(Slice(l2, 0, 10) \o Slice(l2, 13, 20)
                                         \o Slice(l2, 21, 28) \o Slice(l2, 28, 43),
                                       l2[44])]

\* a valid TD3 sample: its four check digits are right
ValidSample(l2) == \A key \in DOMAIN ChecksAsPrinted(l2) : ChecksAsPrinted(l2)[key]

\* C27: for a valid TD3 sample parse_td3_mrz passes all four checks with confidence
\* 1.0, and with any single character of one checked field (document number, birth
\* date, expiry date) replaced by another character of the MRZ alphabet that field's
\* check is false and the checks of the other two fields stay true.
C27_ChecksumRoundTrip ==
  (call # None /\ call.op = "parse_td3_mrz" /\ outcome # None /\ ValidSample(call.sample))
    => IF call.field = "None"
         THEN /\ \A key \in DOMAIN outcome.checks : outcome.checks[key]
              /\ outcome._mrz_checksum_ok
              /\ outcome.mrz_confidence_score = 100
         ELSE \A f \in DOMAIN CheckedFields : outcome.checks[f] <=> f # call.field

(***************************************************************************)
(* Properties of Part VII (checked under SpecParseTd3).                    *)
(***************************************************************************)
\* C28: a TD3 record of MRZParser.parse_td3 has checksum_ok true and confidence 1.0
\* only if all four TD3 checks pass (document number, birth date, expiry date and
\* composite); a line whose composite check digit is wrong is never fully valid.
C28_FullyValidNeedsComposite ==
  (call # None /\ call.op = "parse_td3" /\ outcome # None
     /\ outcome.parsed.checksum_ok /\ outcome.parsed.confidence = <<3, 3>>)
    => ValidSample(call.line2)

(***************************************************************************)
(* Properties of Part VIII (checked under SpecDates).                      *)
(***************************************************************************)
\* the century a year lies in
Century(year) == year \div 100

\* C29: the century of a decoded date is inferred from the current two-digit year:
\* for every two-digit year yy and current two-digit year cy the decoded year lies in
\* the century before the current one iff yy > cy, and in the current century
\* otherwise.
C29_CenturyFromCurrentYear ==
  (call # None /\ call.op = "_yyMMdd_to_iso" /\ outcome # None /\ outcome.iso # <<>>)
    => LET yy == int(call.value[1]) * 10 + int(call.value[2])
           cy == call.current_year % 100
           year == outcome.iso[1].year
       IN /\ year % 100 = yy
          /\ Century(year) = IF yy > cy THEN Century(call.current_year) - 1
                             ELSE Century(call.current_year)

(***************************************************************************)
(* Properties of Part IX (checked under SpecFlow).                         *)
(***************************************************************************)
\* the handler that ran last was told of a duplicate: wait_result polled a job with
\* reason 'duplicate', or find_duplicate answered true to preview_action('confirm')
DuplicateDetected == step # None /\ step.detected

Called(request) == \E i \in DOMAIN step.calls : step.calls[i] = request

\* C30: a detected duplicate always ends in manager verification: the handler that was
\* told of it has called trigger_manager with reason 'duplicate_detected', has left the
\* FSM state MANAGER_VERIFICATION, has not called create_registration and has not
\* reached DONE.
C30_DuplicateEndsInManagerVerification ==
  DuplicateDetected =>
    /\ Called(trigger_manager("duplicate_detected"))
    /\ fsm_state = "MANAGER_VERIFICATION"
    /\ ~Called(create_registration)
    /\ fsm_state # "DONE"

\* the handler that ran last was wait_result
WaitResultRan == step # None /\ step.handler = "wait_result"

\* the get_job calls it made, in order
Polls == SelectSeq(step.calls, LAMBDA c : c.method = "get_job")

\* every one of the max_polls polls reported pending or processing
AllPolls(statuses) ==
  /\ Len(Polls) = max_polls
  /\ \A k \in 1..Len(Polls) : Polls[k].status \in statuses

\* its trigger_manager calls with this reason
Triggered(reason) == SelectSeq(step.calls, LAMBDA c : c = trigger_manager(reason))

CallMoved(c) == bitrix_calls'[c] # bitrix_calls[c]

\* the cache key the arguments of coroutine c give
KeyOf(c) ==
  cache_key(bitrix_calls[c].tenant_id, bitrix_calls[c].operation,
            bitrix_calls[c].idempotency_key)

\* coroutine b has returned the response of a request of its own
Succeeded(b) == bitrix_calls[b].pc = "returned" /\ bitrix_calls[b].sent > 0

\* every cached response is the payload a call carrying that key has returned
CachedFromSuccess ==
  \A key \in DOMAIN connector._idempotent_cache :
    \E b \in BitrixCallIds :
      /\ bitrix_calls[b].pc = "returned" /\ carries_key(bitrix_calls[b].idempotency_key)
      /\ KeyOf(b) = key /\ bitrix_calls[b].value = connector._idempotent_cache[key]

\* C31: once a call carrying an idempotency key has succeeded, every later call with
\* the same (tenant, operation, idempotency key) returns the cached response without
\* sending an HTTP request; the response of a failed call is never cached; a call
\* without an idempotency key is never served from the cache and never stored in it.
C31_IdempotencyCache ==
  /\ []CachedFromSuccess
  /\ [][\A c \in BitrixCallIds :
          LET before == bitrix_calls[c]
              after == bitrix_calls'[c]
              key == cache_key(after.tenant_id, after.operation, after.idempotency_key)
          IN CallMoved(c) =>
               /\ ( /\ before.pc = "none"
                    /\ carries_key(after.idempotency_key)
                    /\ \E b \in BitrixCallIds : Succeeded(b) /\ KeyOf(b) = key
                                                 /\ carries_key(bitrix_calls[b].idempotency_key) )
                    => /\ after.pc = "returned" /\ after.sent = 0 /\ posts' = posts
                       /\ after.value = connector._idempotent_cache[key]
               /\ after.pc = "raised" => connector' = connector
               /\ ~carries_key(after.idempotency_key)
                    => /\ connector' = connector
                       /\ (before.pc = "none" /\ after.pc # "raised")
                            => after.pc = "post" /\ posts' = posts + 1
     ]_vars

\* a call with a key has succeeded with requests of its own and a later call with the
\* same key was served from the cache without any request
C31_Witness ==
  /\ Succeeded(1) /\ carries_key(bitrix_calls[1].idempotency_key)
  /\ bitrix_calls[2].pc = "returned" /\ bitrix_calls[2].sent = 0
  /\ KeyOf(2) = KeyOf(1) /\ bitrix_calls[2].value = bitrix_calls[1].value
  /\ posts = bitrix_calls[1].sent

\* coroutine c has been invoked and has neither returned nor raised
Running(c) == bitrix_calls[c].pc \in {"post", "sleep"}

Ended(c) == bitrix_calls[c].pc \in {"returned", "raised"}

\* C32: _call terminates after at most max_retries + 1 HTTP requests: it sends the
\* request again only after a network error, a 429 or a 5xx answer, returns on the
\* first successful response, raises once the last permitted attempt has failed, and
\* raises at once, without another request, on any other 4xx answer and on a payload
\* that contains 'error'.
C32_BoundedRetries ==
  /\ [](\A c \in BitrixCallIds : bitrix_calls[c].sent <= connector._max_retries + 1)
  /\ \A c \in BitrixCallIds : Running(c) ~> Ended(c)
  /\ [][\A c \in BitrixCallIds :
          LET before == bitrix_calls[c]
              after == bitrix_calls'[c]
          IN (CallMoved(c) /\ before.pc = "post") =>
               /\ after.pc = "sleep"
                    => /\ after.answer \in {"network_error", "429", "5xx"}
                       /\ before.sent < connector._max_retries + 1
               /\ after.answer = "200" => after.pc = "returned" /\ after.sent = before.sent
               /\ (after.answer \in {"network_error", "429", "5xx"}
                     /\ before.sent = connector._max_retries + 1)
                    => after.pc = "raised" /\ after.sent = before.sent
               /\ after.answer \in {"4xx", "200_error"}
                    => after.pc = "raised" /\ after.sent = before.sent
     ]_vars
  /\ [][\A c \in BitrixCallIds :
          bitrix_calls'[c].sent > bitrix_calls[c].sent
            => \/ bitrix_calls[c].pc = "none"
               \/ /\ bitrix_calls[c].pc = "sleep"
                  /\ bitrix_calls'[c].sent = bitrix_calls[c].sent + 1
     ]_vars

\* a call has used all its attempts, each after a retried answer, and has raised, and
\* another call has returned on an answer that followed a retried one
C32_Witness ==
  /\ connector._max_retries > 0
  /\ bitrix_calls[1].pc = "raised" /\ bitrix_calls[1].sent = connector._max_retries + 1
  /\ bitrix_calls[1].answer = "429"
  /\ bitrix_calls[2].pc = "returned" /\ bitrix_calls[2].sent = 2

(***************************************************************************)
(* Properties of Part XI (checked under SpecSession).                      *)
(***************************************************************************)
\* the lines logged since the last /start
SinceStart ==
  LET starts == {i \in DOMAIN sla_decisions : sla_decisions[i].event = "choosing_manager"}
      last == CHOOSE i \in starts : \A k \in starts : k <= i
  IN IF starts = {} THEN <<>>
     ELSE [i \in 1..(Len(sla_decisions) - last) |-> sla_decisions[last + i]]

\* how many soft-fail recognition cycles this passport of the registration has had
SoftFailCycles(passport_index) ==
  Cardinality({i \in DOMAIN SinceStart :
                 /\ SinceStart[i].passport_index = passport_index
                 /\ SinceStart[i].decision = "soft_fail"})

\* C36: manual input mode is entered for a passport only after that passport itself
\* has gone through at least two soft-fail recognition cycles: for every passport
\* index of a session, the second and later ones included, the first failed photo of
\* the passport leads to rescan_passport and never directly to manual_input_mode.
C36_ManualInputAfterTwoCyclesOfPassport ==
  form_state = "manual_input_mode"
    => SoftFailCycles(session.current_passport_index) >= 2

\* the first failed photo of the second passport has opened manual input mode
C36_FirstFailureOfSecondPassport ==
  /\ form_state = "manual_input_mode" /\ session.current_passport_index = 2
  /\ SoftFailCycles(2) = 1 /\ SoftFailCycles(1) = 1

(***************************************************************************)
(* Properties of Part XII (checked under SpecConfirm).                     *)
(***************************************************************************)
\* the leads created with this passport hash
LeadsOf(passport_hash) == {i \in DOMAIN leads : leads[i].passport_hash = passport_hash}

\* C37: at most one CRM lead is ever created per passport hash: under any interleaving
\* of the on_final_confirm handlers of different chats, and also after a confirmation
\* that failed part-way, a confirmation that contains a hash for which a lead was
\* already created answers "already registered" and creates no lead.
C37_OneLeadPerPassportHash ==
  \A h \in PassportHashes \ {""} : Cardinality(LeadsOf(h)) <= 1

\* the handlers of two chats have each created a lead for the same passport hash
C37_TwoChatsOneHash ==
  \E h \in PassportHashes \ {""} :
    \E i \in LeadsOf(h), k \in LeadsOf(h) : leads[i].chat # leads[k].chat

\* one chat has created two leads for a hash with two confirmations, the first of
\* which failed part-way
C37_RetryAfterPartialFailure ==
  \E chat \in ChatIds :
    /\ Len(confirms[chat].residents) = 2
    /\ confirms[chat].residents[1] # confirms[chat].residents[2]
    /\ confirms[chat].pressed = 2
    /\ Cardinality({i \in LeadsOf(confirms[chat].residents[1]) : leads[i].chat = chat}) = 2

====
